---- MODULE Spec2Model ----
(***************************************************************************)
(* Verification model of the BotOrNot media-provenance pipeline.           *)
(*                                                                         *)
(* Spec        : the unified detector, BotOrNotAnalyzer.analyzeMedia       *)
(*               (unnamed/part_007) calling AIDetector.analyzeMedia        *)
(*               (src/aiDetector.js): signature analysis, colour count,    *)
(*               URL score, unified score.                                 *)
(* SpecParser  : HeaderParser.parseFile (src/headerParser.js), byte level. *)
(* SpecPipeline: AIDetector.analyzeMedia over the bytes of a fetched file. *)
(* SpecFallback: CGIDetector.analyzeImage (unnamed/part_008) on an image   *)
(*               whose pixels cannot be read, called twice.                *)
(* SpecConcurrent: two parseFile calls in flight on one HeaderParser.      *)
(* SpecContent : the analyzer of src/js/content.js over a parsed file.     *)
(* SpecPixels  : CGIDetector.analyzeImage (src/js/cgiDetector.js) over the *)
(*               sampled pixels of an image.                               *)
(* SpecBoxes   : parseFile over MP4 and AVIF files, box by box.            *)
(* SpecChunks  : parseFile over PNG files of a thousand chunks and more.   *)
(* SpecSignatureDb: containsAISignature of the two SimpleSignatureDb.      *)
(* SpecC2PA    : parseFile over PNG files that hold a C2PA manifest.       *)
(* SpecCatalog : the catalog loads of the simplified content script        *)
(*               (unnamed/part_003), one analyzer per message.             *)
(* SpecPage    : the content script of src/js/content.js on a page: scans, *)
(*               the analysis queue, badges, mutations and timers.         *)
(*                                                                         *)
(* Strings are TLA+ strings; String.prototype.includes and toLowerCase are *)
(* computed character by character.  A JavaScript null is the record Null. *)
(***************************************************************************)
EXTENDS Integers, Sequences, FiniteSets, TLC

VARIABLES
  pc,                 \* position of the analyzeMedia call
  req,                \* its arguments: [url, mediaType, element]
  signatureAnalysis,  \* AIDetector.analyzeMedia: const signatureAnalysis
  scores,             \* its locals signatureScore, cgiScore
  fetched,            \* how the fetch and parse of the media bytes ended
  analysis,           \* the analysis object it builds and returns
  result,             \* what BotOrNotAnalyzer.analyzeMedia handed its caller
  bytes,              \* HeaderParser: the file under parse, a sequence of bytes
  debugLog,           \* HeaderParser.debugLog
  parsePc,            \* where parseFile is
  offset,             \* the chunk offset of the container walk
  chunkCount,         \* parsePNG's chunkCount
  results,            \* the results object parseFile builds
  parseLog,           \* HeaderParser.parseLog, which results.parseLog aliases
  calls,              \* the invocations followed side by side or one after another
  logOwner,           \* the invocation whose array HeaderParser.parseLog refers to
  page                \* the content script of a page: its fields, timers and badges

scorerVars == <<pc, req, fetched, signatureAnalysis, scores, analysis, result>>

parserVars ==
  <<bytes, debugLog, parsePc, offset, chunkCount, results, parseLog, calls, logOwner, page>>

vars == <<scorerVars, parserVars>>

Null == [null |-> TRUE]

\* No analysis has been asked of the scorer.
ScorerIdle ==
  /\ pc = "idle"
  /\ req = Null
  /\ fetched = "notYet"
  /\ signatureAnalysis = Null
  /\ scores = Null
  /\ analysis = Null
  /\ result = Null

\* No file has been handed to the parser.
ParserIdle ==
  /\ bytes = <<>>
  /\ debugLog = FALSE
  /\ parsePc = "idle"
  /\ offset = 0
  /\ chunkCount = 0
  /\ results = Null
  /\ parseLog = <<>>
  /\ calls = <<>>
  /\ logOwner = 0
  /\ page = Null

\* ------------------------------------------------------------------ bounds

\* Longest list of signatures a header parse hands to the scorer.
MaxSigs == 2

\* ----------------------------------------------------------------- strings

Min(a, b) == IF a < b THEN a ELSE b

Max(a, b) == IF a > b THEN a ELSE b

\* String.prototype.includes
Includes(s, t) ==
  \E i \in 1..(Len(s) - Len(t) + 1) : SubSeq(s, i, i + Len(t) - 1) = t

UpperChars == "ABCDEFGHIJKLMNOPQRSTUVWXYZ"

LowerChars == "abcdefghijklmnopqrstuvwxyz"

LowerChar(c) ==
  IF \E i \in 1..Len(UpperChars) : SubSeq(UpperChars, i, i) = c
  THEN LET i == CHOOSE j \in 1..Len(UpperChars) : SubSeq(UpperChars, j, j) = c
       IN  SubSeq(LowerChars, i, i)
  ELSE c

RECURSIVE ToLowerCase(_)
\* String.prototype.toLowerCase
ToLowerCase(s) ==
  IF Len(s) = 0 THEN ""
  ELSE LowerChar(SubSeq(s, 1, 1)) \o ToLowerCase(SubSeq(s, 2, Len(s)))

RECURSIVE SumSeq(_)
SumSeq(s) == IF s = <<>> THEN 0 ELSE Head(s) + SumSeq(Tail(s))

\* ------------------------------------------------------- the unified scorer

Confidences == {"high", "medium", "low"}

obviousAITools ==
  << "midjourney", "ideogram", "dall-e", "dalle", "stable diffusion", "firefly",
     "leonardo", "runway", "artbreeder", "deepart", "nightcafe", "craiyon",
     "jasper", "canva ai", "adobe firefly", "bing image creator" >>

\* obviousAITools.some(tool => sig.tool?.toLowerCase().includes(tool) ||
\*                             sig.signature?.toLowerCase().includes(tool))
isObviousAI(sig) ==
  LET tool == ToLowerCase(sig.tool)
      signature == ToLowerCase(sig.signature)
  IN  \E k \in 1..Len(obviousAITools) :
        \/ Includes(tool, obviousAITools[k])
        \/ Includes(signature, obviousAITools[k])

HighPoints == 25

MediumPoints == 15

LowPoints == 8

\* What one forEach callback adds to score.  For an obvious tool the callback
\* executes `return 100`, which leaves the callback only: nothing is added.
SignaturePoints(sig) ==
  IF isObviousAI(sig) THEN 0
  ELSE CASE sig.confidence = "high" -> HighPoints
         [] sig.confidence = "medium" -> MediumPoints
         [] sig.confidence = "low" -> LowPoints
         [] OTHER -> 0

BonusPerSignature == 3

MaxBonus == 15

MaxSignatureScore == 80

\* A scorer that returns at the first signature, with its points.
calculateSignatureScoreOfFirst(sa) ==
  IF Len(sa.signatures) = 0 THEN 0
  ELSE Min(SignaturePoints(sa.signatures[1]), MaxSignatureScore)

calculateSignatureScore(sa) ==
  IF Len(sa.signatures) = 0 THEN 0
  ELSE LET score == SumSeq([i \in 1..Len(sa.signatures) |-> SignaturePoints(sa.signatures[i])])
           bonus == IF Len(sa.signatures) > 1
                    THEN Min(Len(sa.signatures) * BonusPerSignature, MaxBonus)
                    ELSE 0
       IN  Min(score + bonus, MaxSignatureScore)

hasObviousAISignatures(sa) ==
  /\ Len(sa.signatures) # 0
  /\ \E i \in 1..Len(sa.signatures) : isObviousAI(sa.signatures[i])

MaxCGIScore == 30

\* Math.round((confidence / 100) * 30); confidence is 0 or 100 here, and the
\* rounding is to the nearest integer, halves up.
calculateCGIScore(cgi) ==
  IF ~cgi.isCGI THEN 0
  ELSE (2 * cgi.confidence * MaxCGIScore + 100) \div 200

MaxURLScore == 20

UrlPoints(p) ==
  CASE p.confidence = "high" -> 15
    [] p.confidence = "medium" -> 10
    [] p.confidence = "low" -> 5
    [] OTHER -> 0

FilenamePoints(p) ==
  CASE p.confidence = "high" -> 10
    [] p.confidence = "medium" -> 6
    [] p.confidence = "low" -> 3
    [] OTHER -> 0

\* url.urlPattern is what signatureDb.checkUrlPatterns(srcUrl) answers and
\* url.filenamePattern what checkFilenamePatterns(extractFilename(srcUrl))
\* answers (Null when there is no filename or no match).
calculateURLScore(url) ==
  LET s1 == IF url.urlPattern # Null THEN UrlPoints(url.urlPattern) ELSE 0
      s2 == IF url.filenamePattern # Null
            THEN s1 + Min(FilenamePoints(url.filenamePattern), MaxURLScore - s1)
            ELSE s1
  IN  Min(s2, MaxURLScore)

HighBand == 75

MediumBand == 50

LowBand == 25

calculateUnifiedConfidence(aiScore) ==
  IF aiScore >= HighBand THEN "high"
  ELSE IF aiScore >= MediumBand THEN "medium"
  ELSE IF aiScore >= LowBand THEN "low"
  ELSE "none"

CgiColorThreshold == 200

DefinitiveColorFloor == 50

IsAIThreshold == 15

MaxScore == 100

\* A JavaScript null where the other values are strings.
NoTool == "<null>"

\* ------------------------------------------------------------ the inputs

\* What the header parse found, as signature records the parser emits
\* (headerParser.js analyzeAIParameters and performComprehensiveScan).
ParseSignatures ==
  { [tool |-> "midjourney", signature |-> "Midjourney metadata",
     type |-> "metadata", confidence |-> "high"],
    [tool |-> "stable-diffusion", signature |-> "Parameter block",
     type |-> "parameters", confidence |-> "high"],
    [tool |-> "generic-ai", signature |-> "AI metadata",
     type |-> "metadata", confidence |-> "medium"],
    [tool |-> "generic-ai", signature |-> "generated",
     type |-> "file-header", confidence |-> "low"],
    [tool |-> "generic-ai", signature |-> "computer generated",
     type |-> "file-header", confidence |-> "medium"],
    [tool |-> "firefly", signature |-> "Adobe",
     type |-> "file-header", confidence |-> "medium"] }

SeqsUpTo(S, n) == UNION { [1..k -> S] : k \in 0..n }

ParseSignatureLists == SeqsUpTo(ParseSignatures, MaxSigs)

\* Answers of signatureDb.checkUrlPatterns / checkFilenamePatterns.
UrlPatternAnswers ==
  { Null,
    [tool |-> "midjourney", pattern |-> "cdn.midjourney.com", confidence |-> "high"],
    [tool |-> "generic-ai", pattern |-> "/ai-art/", confidence |-> "medium"],
    [tool |-> "generic-ai", pattern |-> "/generated/", confidence |-> "low"] }

FilenamePatternAnswers ==
  { Null,
    [tool |-> "dall-e", pattern |-> "DALL-E", confidence |-> "high"],
    [tool |-> "generic-ai", pattern |-> "ai_generated", confidence |-> "medium"],
    [tool |-> "generic-ai", pattern |-> "output_", confidence |-> "low"] }

GenericMatch == [tool |-> "generic-ai", signature |-> "ai-generated"]

\* A URL is what the collaborators answer about it: the two pattern checks,
\* containsAISignature on the whole URL (with getConfidenceLevel's answer for
\* it), on each path component, and on each search parameter's key and value.
\* A URL that `new URL` rejects has no filename, components or parameters.
Urls ==
  { [urlPattern |-> u, filenamePattern |-> f, urlSignature |-> Null,
     components |-> <<>>, params |-> <<>>] :
       u \in UrlPatternAnswers, f \in FilenamePatternAnswers }
  \cup
  { [urlPattern |-> Null, filenamePattern |-> Null,
     urlSignature |-> [tool |-> "generic-ai", signature |-> "ai-generated",
                       confidence |-> c],
     components |-> <<Null, GenericMatch>>, params |-> <<>>] : c \in Confidences }
  \cup
  { [urlPattern |-> Null, filenamePattern |-> Null,
     urlSignature |-> [tool |-> "generic-ai", signature |-> "ai-generated",
                       confidence |-> "low"],
     components |-> <<Null>>,
     params |-> <<[key |-> Null, value |-> GenericMatch],
                  [key |-> GenericMatch, value |-> Null]>>] }

MediaTypes == {"image", "video"}

\* element: null, or the element's tagName
Elements == {NoTool, "IMG", "VIDEO"}

\* colors.size of a rasterised image: sample counts around the two thresholds.
ColorSamples ==
  { 0, DefinitiveColorFloor - 1, DefinitiveColorFloor,
    CgiColorThreshold - 1, CgiColorThreshold, 500 }

\* What ctx.getImageData does: throws (tainted canvas), or yields pixels with
\* `colors` distinct quantized opaque colours.
PixelReads ==
  { [ok |-> FALSE, colors |-> 0] } \cup { [ok |-> TRUE, colors |-> n] : n \in ColorSamples }

\* fetchViaBackground and parseFile: the fetch succeeds and the parse returns,
\* the fetch succeeds and the parse throws, the response says success: false,
\* or the promise rejects (chrome.runtime.lastError).
FetchOutcomes == {"parsed", "parseThrows", "notSuccess", "rejected"}

\* ------------------------------------------------ AIDetector.analyzeMedia

\* The object analyzeMedia starts from.
NewAnalysis(url, mediaType) ==
  [ isAI |-> FALSE, confidence |-> "none", aiScore |-> 0, maxScore |-> MaxScore,
    detectedTool |-> NoTool, method |-> "unified-analysis", details |-> <<>>,
    signatures |-> <<>>, cgiAnalysis |-> Null,
    fileInfo |-> [url |-> url, type |-> mediaType] ]

UrlSignature(p, type) ==
  [tool |-> p.tool, signature |-> p.pattern, type |-> type, confidence |-> p.confidence]

MatchSignature(m, type, confidence) ==
  [tool |-> m.tool, signature |-> m.signature, type |-> type, confidence |-> confidence]

RECURSIVE ComponentSignatures(_)
\* pathComponents.forEach: one medium signature per component that matches.
ComponentSignatures(cs) ==
  IF cs = <<>> THEN <<>>
  ELSE (IF Head(cs) # Null
        THEN <<MatchSignature(Head(cs), "path-component", "medium")>> ELSE <<>>)
       \o ComponentSignatures(Tail(cs))

RECURSIVE ParamSignatures(_)
\* for (const [key, value] of searchParams.entries())
ParamSignatures(ps) ==
  IF ps = <<>> THEN <<>>
  ELSE (IF Head(ps).key # Null
        THEN <<MatchSignature(Head(ps).key, "url-parameter", "medium")>> ELSE <<>>)
       \o (IF Head(ps).value # Null
           THEN <<MatchSignature(Head(ps).value, "url-parameter", "medium")>> ELSE <<>>)
       \o ParamSignatures(Tail(ps))

performEnhancedURLAnalysis(url) ==
  (IF url.urlSignature # Null
   THEN <<MatchSignature(url.urlSignature, "url-content", url.urlSignature.confidence)>>
   ELSE <<>>)
  \o ComponentSignatures(url.components)
  \o ParamSignatures(url.params)

analyzeFromURL(url) ==
  [ signatures |->
      (IF url.urlPattern # Null THEN <<UrlSignature(url.urlPattern, "url")>> ELSE <<>>)
      \o (IF url.filenamePattern # Null
          THEN <<UrlSignature(url.filenamePattern, "filename")>> ELSE <<>>)
      \o performEnhancedURLAnalysis(url),
    details |-> <<"URL-based analysis for: srcUrl">> ]

\* What performSignatureAnalysis returns: the parse result when the fetch said
\* success and parseFile returned; in every other case (the catch swallows the
\* error) the URL-based analysis.
performSignatureAnalysis(url, outcome, parsed) ==
  IF outcome = "parsed"
  THEN [signatures |-> parsed, details |-> <<"File type: fileType">>]
  ELSE analyzeFromURL(url)

\* simpleColorCount: the try body when getImageData yields pixels, the catch
\* when it throws.
simpleColorCount(read) ==
  IF read.ok
  THEN LET isCGI == read.colors < CgiColorThreshold
       IN  [ isCGI |-> isCGI, confidence |-> IF isCGI THEN 100 ELSE 0,
             uniqueColors |-> read.colors,
             reason |-> IF isCGI THEN "Limited color palette" ELSE "Rich color palette",
             metrics |-> [uniqueColors |-> read.colors] ]
  ELSE [ isCGI |-> FALSE, confidence |-> 0, uniqueColors |-> 0,
         reason |-> "Color analysis failed",
         metrics |-> [uniqueColors |-> 0] ]

CgiSignature(cgi, cgiScore) ==
  [ tool |-> "CGI Detection", signature |-> "N unique colors",
    type |-> "color-analysis", confidence |-> "high" ]

confidenceOrder(c) ==
  CASE c = "high" -> 3 [] c = "medium" -> 2 [] c = "low" -> 1 [] OTHER -> 0

IsNotCgiSignature(s) == s.tool # "CGI Detection"

\* signatures.filter(not CGI).sort(by confidence, descending)[0]: the sort is
\* stable, so it is the first signature of the highest confidence present.
TopSignature(sigs) ==
  LET rest == SelectSeq(sigs, IsNotCgiSignature)
  IN  IF rest = <<>> THEN Null
      ELSE LET best == CHOOSE i \in 1..Len(rest) :
                 /\ \A j \in 1..Len(rest) :
                      confidenceOrder(rest[j].confidence) <= confidenceOrder(rest[i].confidence)
                 /\ \A j \in 1..(i - 1) :
                      confidenceOrder(rest[j].confidence) < confidenceOrder(rest[i].confidence)
           IN  rest[best]

IsCGI(cgi) == cgi # Null /\ cgi.isCGI

DetectedTool(sigs, cgi) ==
  IF Len(sigs) > 0
  THEN IF TopSignature(sigs) # Null THEN TopSignature(sigs).tool
       ELSE IF IsCGI(cgi) THEN "CGI Detection" ELSE "generic-ai"
  ELSE IF IsCGI(cgi) THEN "CGI Detection"
  ELSE NoTool

\* The floor test reading the confidence (0 or 100) in place of the colour count.
hasDefinitiveAIOnConfidence(cgi) ==
  cgi # Null /\ cgi.confidence < DefinitiveColorFloor /\ cgi.isCGI

hasDefinitiveAI(cgi) == cgi # Null /\ cgi.metrics.uniqueColors < DefinitiveColorFloor

UnifiedScore(hasObviousAI, definitive, signatureScore, cgiScore, urlScore) ==
  IF hasObviousAI \/ definitive THEN MaxScore
  ELSE Min(signatureScore + cgiScore + urlScore + 0, MaxScore)

IsAI(aiScore) == aiScore >= IsAIThreshold

\* analysis.aiScore as steps 1. to 4. of analyzeMedia compute it from the
\* signatures the parse returned, the colour analysis (Null when there was
\* none) and the URL.
AiScoreFor(parsed, cgi, url) ==
  LET cgiScore == IF cgi = Null THEN 0 ELSE calculateCGIScore(cgi)
      sigs == IF IsCGI(cgi) THEN Append(parsed, CgiSignature(cgi, cgiScore)) ELSE parsed
  IN  UnifiedScore(hasObviousAISignatures([signatures |-> sigs]), hasDefinitiveAI(cgi),
                   calculateSignatureScore([signatures |-> parsed]), cgiScore,
                   calculateURLScore(url))

ObviousBreakdown ==
  << "AI Score: aiScore/100 (OBVIOUS AI TOOL DETECTED)",
     "- Obvious AI signature found - confidence set to 100%",
     "- Detected signatures: signatureScore/80",
     "- CGI Analysis: cgiScore/30",
     "- URL Patterns: urlScore/20" >>

Breakdown ==
  << "AI Score: aiScore/100", "- Signatures: signatureScore/80",
     "- CGI Analysis: cgiScore/30", "- URL Patterns: urlScore/20",
     "- Context: contextScore/10" >>

\* ----------------------------------------------------------------- actions

Init == ScorerIdle /\ ParserIdle

\* BotOrNotAnalyzer.analyzeMedia is called and calls AIDetector.analyzeMedia,
\* which builds its analysis object.
AnalyzeMedia ==
  /\ pc = "idle"
  /\ \E url \in Urls, mediaType \in MediaTypes, element \in Elements :
       /\ req' = [url |-> url, mediaType |-> mediaType, element |-> element]
       /\ analysis' = NewAnalysis(url, mediaType)
  /\ pc' = "signature"
  /\ UNCHANGED <<fetched, signatureAnalysis, scores, result>>
  /\ UNCHANGED parserVars

\* What analyzeMedia does with the signature analysis sa that
\* performSignatureAnalysis returned.
SignatureAnalysed(sa) ==
  /\ signatureAnalysis' = sa
  /\ scores' = [signatureScore |-> calculateSignatureScore(sa), cgiScore |-> 0]
  /\ analysis' = [analysis EXCEPT !.signatures = sa.signatures,
                                   !.details = @ \o sa.details]
  /\ pc' = "cgi"

\* 1. await performSignatureAnalysis, calculateSignatureScore, and the copy
\* of signatures and details into the analysis.
SignatureStep ==
  /\ pc = "signature"
  /\ \E outcome \in FetchOutcomes, parsed \in ParseSignatureLists :
       /\ (outcome # "parsed" => parsed = <<>>)
       /\ fetched' = outcome
       /\ SignatureAnalysed(performSignatureAnalysis(req.url, outcome, parsed))
  /\ UNCHANGED <<req, result>>
  /\ UNCHANGED parserVars

\* 2. the colour count, for an image whose element is an IMG.  The CGI
\* signature is pushed onto analysis.signatures, which is the very array
\* signatureAnalysis.signatures.
ColorCountStep ==
  /\ pc = "cgi"
  /\ IF req.mediaType = "image" /\ req.element = "IMG"
     THEN \E read \in PixelReads :
            LET cgi == simpleColorCount(read)
                cgiScore == calculateCGIScore(cgi)
                sigs == IF cgi.isCGI
                        THEN Append(analysis.signatures, CgiSignature(cgi, cgiScore))
                        ELSE analysis.signatures
            IN  /\ scores' = [scores EXCEPT !.cgiScore = cgiScore]
                /\ analysis' =
                     [analysis EXCEPT
                        !.cgiAnalysis = cgi,
                        !.signatures = sigs,
                        !.details = IF cgi.isCGI
                                    THEN Append(@, "CGI Detection: N unique colors (threshold: 200)")
                                    ELSE @]
                /\ signatureAnalysis' = [signatureAnalysis EXCEPT !.signatures = sigs]
     ELSE UNCHANGED <<scores, analysis, signatureAnalysis>>
  /\ pc' = "score"
  /\ UNCHANGED <<req, fetched, result>>
  /\ UNCHANGED parserVars

\* 3. and 4. the URL score, the unified score, isAI, confidence, the detected
\* tool and the score breakdown.
ScoreStep ==
  /\ pc = "score"
  /\ LET urlScore == calculateURLScore(req.url)
         hasObviousAI == hasObviousAISignatures(signatureAnalysis)
         aiScore == UnifiedScore(hasObviousAI, hasDefinitiveAI(analysis.cgiAnalysis),
                                 scores.signatureScore, scores.cgiScore, urlScore)
         d1 == IF urlScore > 0
               THEN Append(analysis.details, "URL patterns suggest AI content")
               ELSE analysis.details
     IN  analysis' =
           [analysis EXCEPT
              !.aiScore = aiScore,
              !.isAI = IsAI(aiScore),
              !.confidence = calculateUnifiedConfidence(aiScore),
              !.detectedTool = DetectedTool(analysis.signatures, analysis.cgiAnalysis),
              !.details = (IF hasObviousAI THEN ObviousBreakdown ELSE Breakdown) \o d1]
  /\ pc' = "done"
  /\ UNCHANGED <<req, fetched, signatureAnalysis, scores, result>>
  /\ UNCHANGED parserVars

\* BotOrNotAnalyzer.analyzeMedia builds the compatible result and returns it.
ReturnResult ==
  /\ pc = "done"
  /\ result' =
       [ confidence |-> analysis.confidence, isAI |-> analysis.isAI,
         detectedTool |-> analysis.detectedTool, method |-> analysis.method,
         details |-> analysis.details, signatures |-> analysis.signatures,
         fileInfo |-> analysis.fileInfo, aiScore |-> analysis.aiScore,
         maxScore |-> analysis.maxScore, cgiDetection |-> analysis.cgiAnalysis ]
  /\ pc' = "returned"
  /\ UNCHANGED <<req, fetched, signatureAnalysis, scores, analysis>>
  /\ UNCHANGED parserVars

Next ==
  \/ AnalyzeMedia
  \/ SignatureStep
  \/ ColorCountStep
  \/ ScoreStep
  \/ ReturnResult

Spec == Init /\ [][Next]_vars

\* -------------------------------------------- properties of the unified scorer

Returned == pc = "returned"

\* getImageData threw: simpleColorCount went through its catch.
PixelDenied ==
  /\ pc \in {"score", "done", "returned"}
  /\ analysis.cgiAnalysis # Null
  /\ analysis.cgiAnalysis.reason = "Color analysis failed"

\* C1: when the pixel read is denied and there is neither a signature match
\* nor URL or filename evidence, the result has isAI = false.
C1_DeniedPixelsNeutral ==
  (Returned /\ PixelDenied /\ result.signatures = <<>> /\ calculateURLScore(req.url) = 0)
    => result.isAI = FALSE

\* C2: an image sampled to fewer than DefinitiveColorFloor unique colours has
\* confidence high, whatever the signatures and the URL evidence are.
C2_LowColorIsHigh ==
  (/\ pc \in {"done", "returned"}
   /\ analysis.cgiAnalysis # Null
   /\ analysis.cgiAnalysis.metrics.uniqueColors < DefinitiveColorFloor)
    => /\ analysis.confidence = "high"
       /\ Returned => result.confidence = "high"

\* C2's case: a sampled image under the floor with no signature from the file
\* and no URL evidence has been returned.
C2_Witness ==
  /\ Returned
  /\ result.cgiDetection # Null
  /\ result.cgiDetection.reason = "Limited color palette"
  /\ result.cgiDetection.metrics.uniqueColors < DefinitiveColorFloor
  /\ fetched = "parsed"
  /\ Len(result.signatures) = 1
  /\ calculateURLScore(req.url) = 0

\* C3: a denied pixel read yields metrics tagged corsBlocked = true.
C3_DeniedReadTagged ==
  PixelDenied =>
    /\ "corsBlocked" \in DOMAIN analysis.cgiAnalysis
    /\ analysis.cgiAnalysis.corsBlocked = TRUE

\* C4: when getImageData throws, the confidence is never error, and it is none
\* when there is no signature evidence.
C4_DeniedPixelsConfidence ==
  (Returned /\ PixelDenied) =>
    /\ result.confidence # "error"
    /\ result.signatures = <<>> => result.confidence = "none"

\* C6: when the fetch of the media bytes fails, the returned confidence is
\* blocked or error.
C6_FetchFailureSurfaced ==
  (Returned /\ fetched \in {"notSuccess", "rejected"})
    => result.confidence \in {"blocked", "error"}

\* C9: when a signature match names an obvious generative tool, the signature
\* score is at its maximum.
C9_ObviousToolClamped ==
  (/\ pc = "cgi"
   /\ \E i \in 1..Len(signatureAnalysis.signatures) :
        isObviousAI(signatureAnalysis.signatures[i]))
    => scores.signatureScore >= MaxSignatureScore

\* C10: with no signature match and no pixel evidence, no URL or filename
\* makes isAI true.
C10_UrlNeverDecisive ==
  (Returned /\ fetched = "parsed" /\ result.signatures = <<>> /\ result.cgiDetection = Null)
    => result.isAI = FALSE

\* The signatures the parse returned, without the CGI signature pushed later.
ParsedSignatures == SelectSeq(result.signatures, IsNotCgiSignature)

\* One medium-confidence match from the file has been scored and returned.
OneMediumReturned ==
  /\ Returned
  /\ fetched = "parsed"
  /\ Len(ParsedSignatures) = 1
  /\ ParsedSignatures[1].confidence = "medium"

\* The medium-confidence matches distinct from the one returned.
OtherMediums == { m \in ParseSignatures : m.confidence = "medium" /\ m # ParsedSignatures[1] }

ScoreForced(sigs, cgi) ==
  hasObviousAISignatures([signatures |-> sigs]) \/ hasDefinitiveAI(cgi)

MaxChunks == 2

\* The printable ASCII characters from code 32 on; a space stands where the
\* character cannot be written in a string of this module.
Printable ==
  " ! #$%&'()*+,-./0123456789:;<=>?@ABCDEFGHIJKLMNOPQRSTUVWXYZ[ ]^_ abcdefghijklmnopqrstuvwxyz{|}~"

Code(c) ==
  31 + CHOOSE i \in 1..Len(Printable) :
         /\ SubSeq(Printable, i, i) = c
         /\ \A j \in 1..(i - 1) : SubSeq(Printable, j, j) # c

\* The character codes of a string literal of the source.
Codes(s) == [i \in 1..Len(s) |-> Code(SubSeq(s, i, i))]

\* uint8Array[i] is defined.
Defined(b, i) == i >= 0 /\ i < Len(b)

\* uint8Array[i] as an operand of | and <<: undefined converts to 0.
ByteOr0(b, i) == IF Defined(b, i) THEN b[i + 1] ELSE 0

\* byte << 24 in 32-bit signed arithmetic.
ShiftLeft24(byte) == IF byte >= 128 THEN (byte - 256) * 16777216 ELSE byte * 16777216

\* (b[o] << 24) | (b[o+1] << 16) | (b[o+2] << 8) | b[o+3]
Be32(b, o) ==
  ShiftLeft24(ByteOr0(b, o)) + ByteOr0(b, o + 1) * 65536
    + ByteOr0(b, o + 2) * 256 + ByteOr0(b, o + 3)

\* b[o] | (b[o+1] << 8) | (b[o+2] << 16) | (b[o+3] << 24)
Le32(b, o) ==
  ByteOr0(b, o) + ByteOr0(b, o + 1) * 256
    + ByteOr0(b, o + 2) * 65536 + ShiftLeft24(ByteOr0(b, o + 3))

\* The % of the language: the sign of the result is the dividend's.
Rem(a, n) == IF a >= 0 THEN a % n ELSE 0 - ((0 - a) % n)

RelIndex(i, len) == IF i < 0 THEN Max(len + i, 0) ELSE Min(i, len)

\* TypedArray.prototype.slice(start, end)
slice(b, start, end) ==
  SubSeq(b, RelIndex(start, Len(b)) + 1, RelIndex(end, Len(b)))

\* TypedArray.prototype.indexOf
indexOf(b, v) ==
  IF \E i \in 1..Len(b) : b[i] = v
  THEN (CHOOSE i \in 1..Len(b) : b[i] = v /\ \A j \in 1..(i - 1) : b[j] # v) - 1
  ELSE 0 - 1

\* U+FFFD, what the decoder puts for a byte that is no valid UTF-8.
ReplacementChar == 65533

\* textDecoder.decode, utf-8 and not fatal.  The files of the model hold no
\* valid multi-byte sequence, so every byte from 128 on decodes to U+FFFD.
decode(b) == [i \in 1..Len(b) |-> IF b[i] < 128 THEN b[i] ELSE ReplacementChar]

\* String.prototype.toLowerCase, on character codes.
toLowerCase(t) == [i \in 1..Len(t) |-> IF t[i] >= 65 /\ t[i] <= 90 THEN t[i] + 32 ELSE t[i]]

\* this.log: an entry is pushed only when debugLog is set.
log(l, message, level) ==
  IF debugLog THEN Append(l, [level |-> level, message |-> message]) ELSE l

RECURSIVE logAll(_, _)
\* Consecutive calls of this.log at level info.
logAll(l, messages) ==
  IF messages = <<>> THEN l
  ELSE logAll(log(l, Head(messages), "INFO"), Tail(messages))

\* uint8Array[o], uint8Array[o+1], ... === the bytes of magic
HasAt(b, o, magic) ==
  \A i \in 1..Len(magic) : Defined(b, o + i - 1) /\ b[o + i] = magic[i]

PngMagic == <<137, 80, 78, 71>>

detectFileType(b) ==
  IF Len(b) < 4 THEN "Unknown"
  ELSE IF HasAt(b, 0, <<255, 216, 255>>) THEN "JPEG"
  ELSE IF HasAt(b, 0, PngMagic) THEN "PNG"
  ELSE IF HasAt(b, 0, Codes("GIF8")) THEN "GIF"
  ELSE IF HasAt(b, 0, Codes("RIFF")) /\ Len(b) >= 12 /\ HasAt(b, 8, Codes("WEBP"))
       THEN "WebP"
  ELSE IF Len(b) >= 12 /\ HasAt(b, 4, Codes("ftypavif")) THEN "AVIF"
  ELSE IF HasAt(b, 0, <<73, 73, 42, 0>>) \/ HasAt(b, 0, <<77, 77, 0, 42>>) THEN "TIFF"
  ELSE IF Len(b) >= 8 /\ HasAt(b, 4, Codes("ftyp")) THEN "MP4"
  ELSE IF HasAt(b, 0, <<26, 69, 223, 163>>) THEN "WebM"
  ELSE IF Len(b) >= 12 /\ HasAt(b, 0, Codes("RIFF")) /\ HasAt(b, 8, Codes("AVI"))
       THEN "AVI"
  \* the MOV test repeats the MP4 test and is never reached
  ELSE "Unknown"

\* ---------------------------------------------- signatures found in text

\* The catalog src/signatures.json, which SimpleSignatureDb.init loads: a list
\* of strings.  The entry of two characters is one of those the matcher skips.
Catalog == <<Codes("ai"), Codes("midjourney"), Codes("dall-e"), Codes("made_with_ai")>>

IsWordChar(c) == (c >= 48 /\ c <= 57) \/ (c >= 65 /\ c <= 90) \/ (c >= 97 /\ c <= 122) \/ c = 95

\* signature.replace(/[-_]/g, ' ').replace(/\b\w/g, l => l.toUpperCase())
formatToolName(signature) ==
  LET spaced == [i \in 1..Len(signature) |->
                   IF signature[i] = 45 \/ signature[i] = 95 THEN 32 ELSE signature[i]]
  IN  [i \in 1..Len(spaced) |->
         IF /\ spaced[i] >= 97 /\ spaced[i] <= 122
            /\ (i = 1 \/ ~IsWordChar(spaced[i - 1]))
         THEN spaced[i] - 32 ELSE spaced[i]]

\* The catalog entries the loop of containsAISignature stops at.
CatalogHits(text) ==
  { k \in 1..Len(Catalog) :
      /\ Len(toLowerCase(Catalog[k])) > 2
      /\ Includes(toLowerCase(text), toLowerCase(Catalog[k])) }

\* SimpleSignatureDb.containsAISignature: the first entry of the catalog that
\* the text contains, or null.
containsAISignature(text) ==
  IF Len(text) = 0 \/ CatalogHits(text) = {} THEN Null
  ELSE LET k == CHOOSE i \in CatalogHits(text) : \A j \in CatalogHits(text) : i <= j
       IN  [ tool |-> formatToolName(Catalog[k]), signature |-> Catalog[k],
             type |-> "text-signature", confidence |-> "high" ]

checkForAISignatures(text, source, res) ==
  IF Len(text) < 2 \/ containsAISignature(text) = Null THEN res
  ELSE LET match == containsAISignature(text)
       IN  [res EXCEPT
              !.signatures = Append(@, [ tool |-> match.tool, signature |-> match.signature,
                                         type |-> match.type, confidence |-> match.confidence,
                                         source |-> source ]),
              !.details = Append(@, "AI signature detected in " \o source)]

\* results.rawMetadata[key] = value; a key is a name with a number or a text
\* interpolated into it, a value is a sequence of numbers.
Key(name, n, text) == [name |-> name, n |-> n, text |-> text]

put(res, key, value) ==
  LET meta == res.rawMetadata
  IN  [res EXCEPT !.rawMetadata =
         IF \E i \in 1..Len(meta) : meta[i].key = key
         THEN [i \in 1..Len(meta) |->
                 IF meta[i].key = key THEN [key |-> key, value |-> value] ELSE meta[i]]
         ELSE Append(meta, [key |-> key, value |-> value])]

sdParams ==
  << Codes("steps:"), Codes("sampler:"), Codes("cfg scale:"), Codes("seed:"),
     Codes("size:"), Codes("model hash:"), Codes("model:"), Codes("negative prompt:") >>

IncludesAny(text, words) == \E k \in 1..Len(words) : Includes(text, words[k])

MetadataSignature(tool, fallback, keyword, chunkType) ==
  [ tool |-> Codes(tool), signature |-> IF Len(keyword) > 0 THEN keyword ELSE Codes(fallback),
    type |-> "metadata", confidence |-> "high", source |-> "PNG " \o chunkType ]

\* analyzeAIParameters: the signatures it pushes, in its order.
analyzeAIParameters(text, chunkType, keyword, res) ==
  LET lowerText == toLowerCase(text)
      lowerKeyword == toLowerCase(keyword)
      foundSdParams == {k \in 1..Len(sdParams) : Includes(lowerText, sdParams[k])}
      either(word) == Includes(lowerText, Codes(word)) \/ Includes(lowerKeyword, Codes(word))
      sd == IF Cardinality(foundSdParams) >= 2
            THEN << [ tool |-> Codes("stable-diffusion"), signature |-> Codes("Parameter block"),
                      type |-> "parameters", confidence |-> "high",
                      source |-> "PNG " \o chunkType ] >>
            ELSE <<>>
      dalle == IF either("dall") \/ either("openai")
               THEN <<MetadataSignature("dall-e", "DALL-E metadata", keyword, chunkType)>>
               ELSE <<>>
      midjourney ==
        IF \/ either("midjourney")
           \/ IncludesAny(lowerText, <<Codes("--ar"), Codes("--v "), Codes("--stylize")>>)
        THEN <<MetadataSignature("midjourney", "Midjourney metadata", keyword, chunkType)>>
        ELSE <<>>
      ideogram == IF either("ideogram") \/ either("ideogram ai")
                  THEN <<MetadataSignature("ideogram", "Ideogram AI metadata", keyword, chunkType)>>
                  ELSE <<>>
      leonardo == IF either("leonardo") \/ either("leonardo ai")
                  THEN <<MetadataSignature("leonardo", "Leonardo AI metadata", keyword, chunkType)>>
                  ELSE <<>>
      generic ==
        IF IncludesAny(lowerText, << Codes("generated"), Codes("artificial"),
                                     Codes("synthetic"), Codes("ai created") >>)
        THEN << [ MetadataSignature("generic-ai", "AI metadata", keyword, chunkType)
                    EXCEPT !.confidence = "medium" ] >>
        ELSE <<>>
  IN  [res EXCEPT !.signatures = @ \o sd \o dalle \o midjourney \o ideogram \o leonardo \o generic]

\* The confidence of the first signature stands for them all.
calculateConfidenceOfFirst(signatures) ==
  IF Len(signatures) = 0 THEN "none" ELSE signatures[1].confidence

\* calculateConfidence
calculateConfidence(signatures) ==
  LET count(c) == Cardinality({i \in 1..Len(signatures) : signatures[i].confidence = c})
  IN  IF Len(signatures) = 0 THEN "none"
      ELSE IF count("high") >= 1 THEN "high"
      ELSE IF count("high") + count("medium") >= 2 THEN "high"
      ELSE IF count("medium") >= 1 THEN "medium"
      ELSE IF count("low") >= 2 THEN "medium"
      ELSE IF count("low") >= 1 THEN "low"
      ELSE "none"

\* ------------------------------------------------ performComprehensiveScan
\* A pattern is a sequence of tokens: a set of character codes, whether one is
\* needed, whether many are taken.  The patterns carry the flag i, so they are
\* written in lower case and matched against the lowered text.

One(set) == [set |-> set, min |-> 1, many |-> FALSE]

Opt(set) == [set |-> set, min |-> 0, many |-> FALSE]

Star(set) == [set |-> set, min |-> 0, many |-> TRUE]

Plus(set) == [set |-> set, min |-> 1, many |-> TRUE]

Lit(s) == [i \in 1..Len(s) |-> One({Code(SubSeq(s, i, i))})]

Digit == 48..57

WordChar == {c \in 48..122 : IsWordChar(c)}

\* \s, as far as the decoded text of the model can hold it
Space == {9, 10, 11, 12, 13, 32}

DashOrSpace == {45} \cup Space

RECURSIVE RunLength(_, _, _)
RunLength(t, pos, set) ==
  IF pos <= Len(t) /\ t[pos] \in set THEN 1 + RunLength(t, pos + 1, set) ELSE 0

RECURSIVE MatchEnd(_, _, _, _)
RECURSIVE TryCount(_, _, _, _, _)
\* Where a match of the tokens k.. of p that starts at pos ends (the position
\* after it), 0 when there is none: each token takes as many characters as it
\* can and gives back one at a time.
MatchEnd(p, k, t, pos) ==
  IF k > Len(p) THEN pos
  ELSE LET run == RunLength(t, pos, p[k].set)
       IN  TryCount(p, k, t, pos, IF p[k].many THEN run ELSE Min(run, 1))

TryCount(p, k, t, pos, c) ==
  IF c < p[k].min THEN 0
  ELSE LET e == MatchEnd(p, k + 1, t, pos + c)
       IN  IF e # 0 THEN e ELSE TryCount(p, k, t, pos, c - 1)

\* fileText.match(pattern)[0], or the empty text when match answers null (no
\* pattern of the scan matches the empty text).
FirstMatch(p, text) ==
  LET lowered == toLowerCase(text)
      starts == {st \in 1..Len(text) : MatchEnd(p, 1, lowered, st) # 0}
  IN  IF starts = {} THEN <<>>
      ELSE LET st == CHOOSE a \in starts : \A b \in starts : a <= b
           IN  SubSeq(text, st, MatchEnd(p, 1, lowered, st) - 1)

Pattern(p, tool, confidence) == [pattern |-> p, tool |-> Codes(tool), confidence |-> confidence]

aiSignatures ==
  << Pattern(Lit("dall") \o <<Opt(DashOrSpace)>> \o Lit("e"), "dall-e", "high"),
     Pattern(Lit("midjourney"), "midjourney", "high"),
     Pattern(Lit("stable") \o <<Opt(DashOrSpace)>> \o Lit("diffusion"), "stable-diffusion", "high"),
     Pattern(Lit("firefly"), "firefly", "high"),
     Pattern(Lit("leonardo"), "leonardo", "high"),
     Pattern(Lit("openai"), "dall-e", "medium"),
     Pattern(Lit("adobe"), "firefly", "medium"),
     Pattern(Lit("runway"), "runway", "high"),
     Pattern(Lit("imagen"), "imagen", "high"),
     Pattern(Lit("artbreeder"), "artbreeder", "high"),
     Pattern(Lit("nightcafe"), "nightcafe", "high"),
     Pattern(Lit("playground"), "playground-ai", "high"),
     Pattern(Lit("craiyon"), "craiyon", "high"),
     Pattern(Lit("comfyui"), "comfyui", "high"),
     Pattern(Lit("automatic1111"), "automatic1111", "high"),
     Pattern(Lit("invokeai"), "invokeai", "high"),
     Pattern(Lit("generated"), "generic-ai", "low"),
     Pattern(Lit("artificial"), "generic-ai", "low"),
     Pattern(Lit("synthetic"), "generic-ai", "low"),
     Pattern(Lit("ai") \o <<Opt(DashOrSpace)>> \o Lit("generated"), "generic-ai", "medium"),
     Pattern(Lit("computer") \o <<Opt(DashOrSpace)>> \o Lit("generated"), "generic-ai", "medium") >>

parameterPatterns ==
  << Pattern(Lit("steps:") \o <<Star(Space), Plus(Digit)>>, "stable-diffusion", "high"),
     Pattern(Lit("cfg") \o <<Opt(DashOrSpace)>> \o Lit("scale:")
               \o <<Star(Space), Plus(Digit \cup {46})>>, "stable-diffusion", "high"),
     Pattern(Lit("sampler:") \o <<Star(Space), Plus(WordChar)>>, "stable-diffusion", "high"),
     Pattern(Lit("seed:") \o <<Star(Space), Plus(Digit)>>, "stable-diffusion", "medium"),
     Pattern(Lit("model") \o <<Opt(DashOrSpace)>> \o Lit("hash:")
               \o <<Star(Space), Plus(WordChar)>>, "stable-diffusion", "high"),
     Pattern(Lit("--ar") \o <<Plus(Space), Plus(Digit)>> \o Lit(":") \o <<Plus(Digit)>>,
             "midjourney", "high"),
     Pattern(Lit("--v") \o <<Plus(Space), Plus(Digit)>>, "midjourney", "high"),
     Pattern(Lit("--stylize") \o <<Plus(Space), Plus(Digit)>>, "midjourney", "high"),
     Pattern(Lit("--chaos") \o <<Plus(Space), Plus(Digit)>>, "midjourney", "high"),
     Pattern(Lit("--quality") \o <<Plus(Space), One(Digit \cup {46})>>, "midjourney", "high") >>

RECURSIVE ScanFor(_, _, _)
\* for (const {pattern, tool, confidence} of patterns): the signatures pushed.
ScanFor(patterns, text, type) ==
  IF patterns = <<>> THEN <<>>
  ELSE LET found == FirstMatch(Head(patterns).pattern, text)
       IN  (IF found # <<>>
            THEN << [ tool |-> Head(patterns).tool, signature |-> found, type |-> type,
                      confidence |-> Head(patterns).confidence,
                      source |-> "File header scan" ] >>
            ELSE <<>>)
           \o ScanFor(Tail(patterns), text, type)

\* Bytes of the file the scan reads.
ScanSize == 65536

performComprehensiveScan(b, res) ==
  LET fileText == decode(slice(b, 0, Min(ScanSize, Len(b))))
      found == ScanFor(aiSignatures, fileText, "file-header")
                 \o ScanFor(parameterPatterns, fileText, "parameters")
      stored == put(res, Key("FileHeader_Text", 0, <<>>), SubSeq(fileText, 1, Min(Len(fileText), 1000)))
  IN  [stored EXCEPT
         !.signatures = @ \o found,
         !.details = Append(@, IF Len(found) > 0
                               THEN "Found N AI signatures in file header scan"
                               ELSE "No AI signatures found in file header or metadata")]

\* -------------------------------------------------------- PNG text chunks

RECURSIVE iTXtParts(_, _, _, _)
\* The loop of the iTXt branch over chunkData from index i: the parts pushed
\* and where the rest starts.
iTXtParts(data, i, start, parts) ==
  IF i >= Len(data) THEN [parts |-> parts, start |-> start]
  ELSE IF data[i + 1] = 0
  THEN LET pushed == Append(parts, IF start < i THEN decode(slice(data, start, i)) ELSE <<>>)
       IN  IF Len(pushed) >= 4 THEN [parts |-> pushed, start |-> i + 1]
           ELSE iTXtParts(data, i + 1, i + 1, pushed)
  ELSE iTXtParts(data, i + 1, start, parts)

\* keyword and text as the three branches of parsePNGTextChunk extract them.
TextChunkFields(chunkData, chunkType) ==
  LET nullIndex == indexOf(chunkData, 0)
      whole == [keyword |-> <<>>, text |-> decode(chunkData)]
  IN  CASE chunkType = "tEXt" ->
             IF nullIndex # 0 - 1
             THEN [ keyword |-> decode(slice(chunkData, 0, nullIndex)),
                    text |-> decode(slice(chunkData, nullIndex + 1, Len(chunkData))) ]
             ELSE whole
        [] chunkType = "iTXt" ->
             LET walked == iTXtParts(chunkData, 0, 0, <<>>)
                 parts == IF walked.start < Len(chunkData)
                          THEN Append(walked.parts,
                                      decode(slice(chunkData, walked.start, Len(chunkData))))
                          ELSE walked.parts
             IN  [ keyword |-> IF Len(parts) >= 1 THEN parts[1] ELSE <<>>,
                   text |-> IF Len(parts) >= 5 THEN parts[5] ELSE <<>> ]
        [] OTHER ->
             IF nullIndex # 0 - 1 /\ nullIndex + 2 < Len(chunkData)
             THEN [ keyword |-> decode(slice(chunkData, 0, nullIndex)),
                    text |-> decode(slice(chunkData, nullIndex + 2, Len(chunkData))) ]
             ELSE whole

\* parsePNGTextChunk on results: the decoder is not fatal, so the catch of the
\* function is never entered.
parsePNGTextChunk(chunkData, chunkType, res, chunkNumber) ==
  LET f == TextChunkFields(chunkData, chunkType)
      stored == IF Len(f.keyword) > 0
                THEN put(res, Key("PNG_" \o chunkType, 0, f.keyword), f.text)
                ELSE put(res, Key("PNG_" \o chunkType, chunkNumber, <<>>), f.text)
      checked == IF Len(f.keyword) > 0
                 THEN checkForAISignatures(f.keyword, "PNG " \o chunkType \o " keyword", stored)
                 ELSE stored
  IN  IF Len(f.text) > 0
      THEN analyzeAIParameters(f.text, chunkType, f.keyword,
             checkForAISignatures(f.text, "PNG " \o chunkType \o " text", checked))
      ELSE checked

\* The entries parsePNGTextChunk and analyzeAIParameters log: one or two for
\* the chunk, one when the keyword is stored, one for each signature that
\* analyzeAIParameters pushes.
TextChunkLog(chunkData, chunkType, res, l) ==
  LET f == TextChunkFields(chunkData, chunkType)
      nullIndex == indexOf(chunkData, 0)
      l1 == log(l, chunkType \o " chunk", "INFO")
      l2 == IF chunkType = "zTXt" /\ nullIndex # 0 - 1 /\ nullIndex + 2 < Len(chunkData)
            THEN log(l1, "zTXt: Attempted plain text decode", "INFO") ELSE l1
      l3 == IF Len(f.keyword) > 0 THEN log(l2, "Stored metadata", "INFO") ELSE l2
      pushed == IF Len(f.text) > 0
                THEN Len(analyzeAIParameters(f.text, chunkType, f.keyword, res).signatures)
                       - Len(res.signatures)
                ELSE 0
  IN  logAll(l3, [i \in 1..pushed |-> "Found signatures"])

\* ----------------------------------------------------------- parseGeneric

HeaderTextChar(c) ==
  IsWordChar(c) \/ c \in Space \/ c \in {45, 46, 58, 47}

RECURSIVE TextPatterns(_, _, _)
\* headerText.match(/[a-zA-Z0-9\s\-_.:\/]{10,}/g): how many matches, each a
\* maximal run of ten characters or more.
TextPatterns(t, pos, run) ==
  IF pos > Len(t) THEN (IF run >= 10 THEN 1 ELSE 0)
  ELSE IF HeaderTextChar(t[pos]) THEN TextPatterns(t, pos + 1, run + 1)
  ELSE (IF run >= 10 THEN 1 ELSE 0) + TextPatterns(t, pos + 1, 0)

GenericSearchSize == 4096

parseGeneric(b, res) ==
  LET headerText == decode(slice(b, 0, Min(GenericSearchSize, Len(b))))
  IN  checkForAISignatures(headerText, "File Header",
        put(res, Key("HeaderText", 0, <<>>), SubSeq(headerText, 1, Min(Len(headerText), 500))))

parseGenericLog(b, l) ==
  LET headerText == decode(slice(b, 0, Min(GenericSearchSize, Len(b))))
      n == TextPatterns(headerText, 1, 0)
      l1 == log(l, "Starting generic text search in file header", "INFO")
  IN  IF n > 0
      THEN logAll(log(l1, "Found N text patterns in header", "INFO"),
                  [i \in 1..Min(n, 5) |-> "Text pattern"])
      ELSE l1

\* ------------------------------------------------------------- parseJPEG

RECURSIVE parseJPEG(_, _, _, _, _)
\* The loop of parseJPEG from off, and what follows it: the result and the log
\* it leaves.  The EXIF and C2PA branches of an APP1 segment (parseEXIF,
\* parseC2PA) are not modelled; no file of the model holds such a segment.
parseJPEG(b, off, segmentCount, res, l) ==
  IF ~(off < Len(b) - 4) THEN [results |-> res, parseLog |-> log(l, "JPEG parsing complete", "INFO")]
  ELSE
    LET marker == b[off + 2]
        length == b[off + 3] * 256 + b[off + 4]
        segmentText == decode(slice(b, off + 4, off + 4 + length))
        comment == decode(slice(b, off + 4, off + 2 + length))
        first200 == SubSeq(segmentText, 1, Min(Len(segmentText), 200))
    IN  IF b[off + 1] = 255 /\ marker = 225
        THEN IF Includes(segmentText, Codes("http://ns.adobe.com/xap/1.0/"))
             THEN parseJPEG(b, off + length + 2, segmentCount + 1,
                            checkForAISignatures(segmentText, "JPEG XMP",
                              put(res, Key("JPEG_XMP", 0, <<>>), segmentText)),
                            logAll(l, <<"Found APP1 segment", "Found Adobe XMP data in APP1 segment">>))
             ELSE parseJPEG(b, off + length + 2, segmentCount + 1,
                            checkForAISignatures(segmentText, "JPEG APP1",
                              put(res, Key("JPEG_APP1_Unknown", 0, <<>>), first200)),
                            logAll(l, <<"Found APP1 segment", "Unknown APP1 segment content">>))
        ELSE IF b[off + 1] = 255 /\ marker = 254
        THEN parseJPEG(b, off + length + 2, segmentCount,
                       checkForAISignatures(comment, "JPEG Comment",
                         put(res, Key("JPEG_Comment", 0, <<>>), comment)),
                       log(l, "Found JPEG comment", "INFO"))
        ELSE IF b[off + 1] = 255 /\ marker >= 224 /\ marker <= 239
        THEN parseJPEG(b, off + length + 2, segmentCount,
                       checkForAISignatures(segmentText, "JPEG APP",
                         put(res, Key("JPEG_APP", marker - 224, <<>>), first200)),
                       log(l, "Found APP segment", "INFO"))
        ELSE IF b[off + 1] = 255 /\ marker = 218
        THEN [ results |-> res,
               parseLog |-> logAll(l, <<"Reached Start of Scan (SOS)", "JPEG parsing complete">>) ]
        ELSE parseJPEG(b, off + 1, segmentCount, res, l)

\* ------------------------------------------------- the files handed to parse

\* A length below 2^31 as the four bytes of a big-endian field.
Be32Bytes(n) == <<n \div 16777216, (n \div 65536) % 256, (n \div 256) % 256, n % 256>>

\* ... and of a little-endian field.
Le32Bytes(n) == <<n % 256, (n \div 256) % 256, (n \div 65536) % 256, n \div 16777216>>

PngSignature == PngMagic \o <<13, 10, 26, 10>>

\* length, type, data, CRC (which the parser does not read)
PngChunk(type, data) == Be32Bytes(Len(data)) \o Codes(type) \o data \o <<0, 0, 0, 0>>

\* A chunk header that declares more than what follows it.
PngOverrun(declared, following) == declared \o Codes("IDAT") \o following

PngChunks ==
  { PngChunk("IHDR", <<0, 0, 0, 2, 0, 0, 0, 3, 8, 2, 0, 0, 0>>),
    PngChunk("tEXt", Codes("Software") \o <<0>> \o Codes("Midjourney --v 5")),
    PngChunk("tEXt", Codes("Title") \o <<0>> \o Codes("a cat")),
    PngChunk("tEXt", Codes("parameters") \o <<0>> \o Codes("Steps: 20, Seed: 5")),
    PngChunk("tEXt", Codes("prompt") \o <<0>> \o Codes("generated --chaos 50 --quality 2")),
    PngChunk("iTXt", Codes("note") \o <<0, 0, 0, 0>> \o Codes("generated")),
    PngChunk("zTXt", Codes("raw") \o <<0, 0, 120, 156>>),
    PngChunk("IDAT", <<1, 2>>),
    PngChunk("IEND", <<>>),
    PngOverrun(<<0, 0, 0, 255>>, <<1, 2, 3, 4, 5, 6>>),
    PngOverrun(<<0, 0, 0, 255>>, <<>>),
    PngOverrun(<<255, 255, 255, 255>>, <<1, 2, 3, 4, 5, 6>>) }

RiffHeader(form) == Codes("RIFF") \o <<0, 0, 0, 0>> \o Codes(form)

\* fourcc, size, data, and the pad byte after data of odd size
RiffChunk(fourcc, data) ==
  Codes(fourcc) \o Le32Bytes(Len(data)) \o data \o (IF Len(data) % 2 = 1 THEN <<0>> ELSE <<>>)

\* A chunk whose size field holds a negative 32-bit number.
RiffNegative(fourcc, size4) == Codes(fourcc) \o size4 \o <<0, 0>>

WebPChunks ==
  { RiffChunk("VP8 ", <<1, 2>>),
    RiffChunk("XMP ", Codes("made by DALL-E")),
    RiffChunk("XMP ", Codes("<x/>")),
    RiffNegative("VP8X", <<248, 255, 255, 255>>),
    RiffNegative("VP8X", <<255, 255, 255, 255>>),
    Codes("VP8 ") \o <<2, 0>> }

AviChunks ==
  { RiffChunk("ISFT", Codes("Lavf synthetic")),
    RiffChunk("JUNK", <<1, 2, 3>>),
    RiffNegative("LIST", <<248, 255, 255, 255>>),
    Codes("JUNK") \o <<2, 0>> }

RECURSIVE Concat(_)
Concat(ss) == IF ss = <<>> THEN <<>> ELSE Head(ss) \o Concat(Tail(ss))

\* A header followed by at most MaxChunks chunks.
Container(header, chunks) ==
  { header \o Concat(cs) : cs \in SeqsUpTo(chunks, MaxChunks) }

\* Files cut inside the PNG signature, and one whose signature is wrong.
BrokenPngs ==
  { SubSeq(PngSignature, 1, n) : n \in 4..7 } \cup { PngMagic \o <<0, 0, 0, 0, 1, 2, 3, 4, 5, 6>> }

\* A JPEG segment: the marker, the length (which counts its own two bytes),
\* the data.
JpegSegment(marker, data) ==
  <<255, marker, (Len(data) + 2) \div 256, (Len(data) + 2) % 256>> \o data

\* JPEG files: start of image, segments, start of scan with a few bytes.
JpegFiles ==
  { <<255, 216, 255>>, <<255, 216, 255, 224>> } \cup
  { <<255, 216>> \o segments \o <<255, 218, 0, 2, 1, 2, 3, 4>> :
      segments \in
        { JpegSegment(224, Codes("JFIF") \o <<0, 1, 1>>),
          JpegSegment(254, Codes("Steps: 20, Sampler: Euler a")),
          JpegSegment(254, Codes("Seed: random, Negative prompt: blurry")),
          JpegSegment(224, Codes("JFIF") \o <<0, 1, 1>>)
            \o JpegSegment(254, Codes("made with Midjourney")),
          JpegSegment(225, Codes("http://ns.adobe.com/xap/1.0/") \o <<0>> \o Codes("<x/>")),
          JpegSegment(225, Codes("ICC")) } }

OtherFiles ==
  { <<>>, <<1, 2, 3>>, Codes("GIF89a") \o <<1, 0, 1, 0, 0, 0, 0>>,
    Codes("GIF89a") \o <<1, 0, 1, 0, 0, 0, 0, 33, 254, 9>> \o Codes("generated")
      \o <<0, 44, 0, 0, 0, 0, 59>>,
    Codes("GIF89a") \o <<1, 0, 1, 0, 0, 0, 0, 33, 254, 200>> \o Codes("cut"),
    Codes("GIF89a") \o <<1, 0, 1, 0, 0, 0, 0, 33, 254, 17>> \o Codes("Midjourney/DALL-E")
      \o <<0, 44, 0, 0, 0, 0, 59>>,
    Codes("a synthetic picture"), Codes("synthetic and artificial"),
    Codes("AI-generated art"), Codes("%!PS") \o <<200, 0>> \o Codes("OpenAI") }

\* The container types whose parse is modelled.
ModelledTypes == {"JPEG", "PNG", "WebP", "AVI", "GIF", "Unknown"}

\* The magic bytes of every container type and nothing behind them.
MinimalHeader ==
  [ JPEG |-> <<255, 216, 255>>,
    PNG  |-> PngSignature,
    GIF  |-> Codes("GIF89a"),
    WebP |-> Codes("RIFF") \o <<4, 0, 0, 0>> \o Codes("WEBP"),
    TIFF |-> <<73, 73, 42, 0>>,
    AVIF |-> <<0, 0, 0, 12>> \o Codes("ftypavif"),
    MP4  |-> <<0, 0, 0, 12>> \o Codes("ftypisom"),
    MOV  |-> <<0, 0, 0, 12>> \o Codes("ftypqt  "),
    AVI  |-> Codes("RIFF") \o <<4, 0, 0, 0>> \o Codes("AVI "),
    WebM |-> <<26, 69, 223, 163>> ]

\* The files of the model: those of the container types whose parse is
\* modelled, and the minimal headers, of which the types TIFF and WebM are
\* followed no further than detectFileType.
Files ==
  { MinimalHeader[type] : type \in DOMAIN MinimalHeader } \cup
  { f \in Container(PngSignature, PngChunks) \cup BrokenPngs
            \cup Container(RiffHeader("WEBP"), WebPChunks)
            \cup Container(RiffHeader("AVI "), AviChunks)
            \cup JpegFiles \cup OtherFiles :
      detectFileType(f) \in ModelledTypes }

\* --------------------------------------------------------------- parseFile

InitParser ==
  /\ ScorerIdle
  /\ bytes \in Files
  /\ debugLog \in BOOLEAN
  /\ parsePc = "idle"
  /\ offset = 0
  /\ chunkCount = 0
  /\ results = Null
  /\ parseLog = <<>>
  /\ calls = <<>>
  /\ logOwner = 0
  /\ page = Null

\* The entries detectFileType logs.
detectFileTypeLog(b, l) ==
  IF Len(b) < 4 THEN l
  ELSE logAll(l, << "DEBUG: First 8 bytes",
                    IF detectFileType(b) = "Unknown" THEN "No recognized magic bytes found"
                    ELSE "Magic bytes match " \o detectFileType(b) \o " format" >>)

\* parseFile up to its switch, on a log l: the results object and the log it
\* leaves; parsePNG, parseJPEG, parseAVI and parseAVIF log their start.
parseFileStart(b, l) ==
  LET fileType == detectFileType(b)
      l1 == detectFileTypeLog(b, log(l, "Starting parse", "INFO"))
      l2 == logAll(l1, <<"Detected file type: " \o fileType, "Analyzing file">>)
  IN  [ results |-> [ fileType |-> fileType, signatures |-> <<>>, confidence |-> "none",
                      details |-> <<"File type: " \o fileType>>, rawMetadata |-> <<>> ],
        parseLog |-> CASE fileType = "PNG" -> log(l2, "Starting enhanced PNG parsing", "INFO")
                       [] fileType = "JPEG" -> log(l2, "Starting JPEG parsing", "INFO")
                       [] fileType = "AVI" -> log(l2, "Starting AVI parsing", "INFO")
                       [] fileType = "AVIF" -> log(l2, "Starting AVIF parsing", "INFO")
                       [] OTHER -> l2 ]

\* parseFile up to its switch; the two RIFF walks start at offset 12.  The
\* parse of a TIFF or WebM file is not modelled: such a file is followed up to
\* here.
ParseFile ==
  /\ parsePc = "idle"
  /\ LET fileType == detectFileType(bytes)
         started == parseFileStart(bytes, <<>>)
     IN  /\ results' = started.results
         /\ parseLog' = started.parseLog
         /\ parsePc' = CASE fileType = "PNG" -> "png"
                         [] fileType = "JPEG" -> "jpeg"
                         [] fileType = "WebP" -> "webp"
                         [] fileType = "AVI" -> "avi"
                         [] fileType = "GIF" -> "gif"
                         [] fileType \in {"MP4", "MOV"} -> "mp4"
                         [] fileType = "AVIF" -> "avif"
                         [] fileType = "Unknown" -> "generic"
                         [] OTHER -> "unmodelled"
         /\ offset' = IF fileType \in {"WebP", "AVI"} THEN 12 ELSE 0
  /\ UNCHANGED <<bytes, debugLog, page, calls, logOwner, chunkCount>>
  /\ UNCHANGED scorerVars

\* The first index below 8 at which the file differs from the PNG signature,
\* 8 when there is none.
SignatureMismatch(b) ==
  IF \E i \in 0..7 : ~HasAt(b, i, <<PngSignature[i + 1]>>)
  THEN CHOOSE i \in 0..7 :
         /\ ~HasAt(b, i, <<PngSignature[i + 1]>>)
         /\ \A j \in 0..(i - 1) : HasAt(b, j, <<PngSignature[j + 1]>>)
  ELSE 8

\* parsePNG, the check of the signature.  At a mismatch the message is built
\* before log is called: uint8Array[i].toString(16) throws a TypeError when
\* the file ends before index i, and the rejection leaves parseFile.
ParsePNGSignature ==
  /\ parsePc = "png"
  /\ LET i == SignatureMismatch(bytes)
     IN  IF i < 8
         THEN IF Defined(bytes, i)
              THEN /\ parseLog' = log(parseLog, "Invalid PNG signature", "ERROR")
                   /\ parsePc' = "scan"
              ELSE /\ parsePc' = "threw"
                   /\ UNCHANGED parseLog
         ELSE /\ parsePc' = "pngLoop"
              /\ UNCHANGED parseLog
  /\ offset' = 8
  /\ UNCHANGED <<bytes, debugLog, page, calls, logOwner, chunkCount, results>>
  /\ UNCHANGED scorerVars

\* The most chunks parsePNG walks past before it stops.
ChunkLimit == 1000

\* length < 0 || length > uint8Array.length - offset - 12
InvalidChunkLength(length, len, off) == length < 0 \/ length > len - off - 12

\* ------------------------------------------------------------------- C2PA

Quote == One({34})

\* /"claim_generator":\s*"([^"]+)"/i
ClaimGeneratorPattern ==
  <<Quote>> \o Lit("claim_generator") \o
  <<Quote, One({58}), Star(Space), Quote, Plus((0..ReplacementChar) \ {34}), Quote>>

\* /"assertions":\s*\[([^\]]+)\]/i and /"ingredients":\s*\[([^\]]+)\]/i
ListPattern(name) ==
  <<Quote>> \o Lit(name) \o
  <<Quote, One({58}), Star(Space), One({91}), Plus((0..ReplacementChar) \ {93}), One({93})>>

\* isAIGenerator
aiTools ==
  << "dall-e", "dalle", "midjourney", "stable diffusion", "firefly", "leonardo",
     "runway", "imagen", "artbreeder", "nightcafe", "playground", "craiyon",
     "comfyui", "automatic1111", "invokeai", "photoshop", "adobe", "openai",
     "anthropic", "claude", "chatgpt", "gpt", "ai", "artificial intelligence" >>

isAIGenerator(generator) ==
  \E k \in 1..Len(aiTools) : Includes(toLowerCase(generator), Codes(aiTools[k]))

\* The capture group of a match of ClaimGeneratorPattern: what stands between
\* the last two quotes.
GeneratorOf(match) ==
  LET open == CHOOSE i \in 1..(Len(match) - 1) :
                /\ match[i] = 34
                /\ \A j \in (i + 1)..(Len(match) - 1) : match[j] # 34
  IN  SubSeq(match, open + 1, Len(match) - 1)

\* The capture group of a match of a ListPattern: what stands between the
\* first opening bracket and the end.
ListOf(match) ==
  LET open == CHOOSE i \in 1..Len(match) :
                match[i] = 91 /\ \A j \in 1..(i - 1) : match[j] # 91
  IN  SubSeq(match, open + 1, Len(match) - 1)

\* extractC2PAFields
extractC2PAFields(jsonContent, res, fileType) ==
  LET generatorMatch == FirstMatch(ClaimGeneratorPattern, jsonContent)
      generator == GeneratorOf(generatorMatch)
      assertionsMatch == FirstMatch(ListPattern("assertions"), jsonContent)
      ingredientsMatch == FirstMatch(ListPattern("ingredients"), jsonContent)
      r1 == IF generatorMatch = <<>> THEN res
            ELSE LET stored == put(res, Key("C2PA_Generator", 0, Codes(fileType)), generator)
                 IN  IF isAIGenerator(generator)
                     THEN [stored EXCEPT !.signatures =
                             Append(@, [ tool |-> Codes("c2pa-ai"), signature |-> generator,
                                         type |-> "ai-tool", confidence |-> "high",
                                         source |-> fileType \o " C2PA Claim Generator" ])]
                     ELSE stored
      r2 == IF assertionsMatch = <<>> THEN r1
            ELSE put(r1, Key("C2PA_Assertions", 0, Codes(fileType)),
                     SubSeq(ListOf(assertionsMatch), 1, Min(500, Len(ListOf(assertionsMatch)))))
  IN  IF ingredientsMatch = <<>> THEN r2
      ELSE put(r2, Key("C2PA_Ingredients", 0, Codes(fileType)),
               SubSeq(ListOf(ingredientsMatch), 1, Min(500, Len(ListOf(ingredientsMatch)))))

\* c2paPatterns: the names of the patterns that the text matches, in order.
foundPatterns(textContent) ==
  LET t == toLowerCase(textContent)
      field(name) == <<34>> \o Codes(name) \o <<34, 58>>
      context == <<Quote, One({64})>> \o Lit("context") \o <<Quote, One({58}), Star(Space), Quote>>
                   \o Lit("http://c2pa.org")
      found == << <<"C2PA Signature", Includes(t, Codes("c2pa"))>>,
                  <<"C2PA Schema", Includes(t, Codes("http://c2pa.org"))>>,
                  <<"C2PA Context", FirstMatch(context, textContent) # <<>> >>,
                  <<"Claim Generator", Includes(t, field("claim_generator"))>>,
                  <<"Assertions", Includes(t, field("assertions"))>>,
                  <<"Ingredient", Includes(t, field("ingredient"))>>,
                  <<"Manifest", Includes(t, field("manifest"))>>,
                  <<"Signature", Includes(t, field("signature"))>> >>
      hit(pair) == pair[2]
      names == SelectSeq(found, hit)
  IN  [k \in 1..Len(names) |-> names[k][1]]

\* A match that ends at the first closing brace instead of the last.
jsonMatchShortest(textContent) ==
  LET opens == {i \in 1..Len(textContent) : textContent[i] = 123}
      first == CHOOSE i \in opens : \A j \in opens : i <= j
      closes == {i \in 1..Len(textContent) : textContent[i] = 125 /\ i > first}
  IN  IF opens = {} \/ closes = {} THEN <<>>
      ELSE SubSeq(textContent, first, CHOOSE i \in closes : \A j \in closes : i <= j)

\* textContent.match(/\{[\s\S]*\}/): from the first opening brace to the last
\* closing brace behind it, or the empty text when match answers null.
jsonMatch(textContent) ==
  LET opens == {i \in 1..Len(textContent) : textContent[i] = 123}
      first == CHOOSE i \in opens : \A j \in opens : i <= j
      closes == {i \in 1..Len(textContent) : textContent[i] = 125 /\ i > first}
  IN  IF opens = {} \/ closes = {} THEN <<>>
      ELSE SubSeq(textContent, first, CHOOSE i \in closes : \A j \in closes : j <= i)

\* parseC2PA, on results.
parseC2PA(c2paData, res, fileType) ==
  LET textContent == decode(c2paData)
      raw == put(res, Key("C2PA_Raw", 0, Codes(fileType)), <<Len(c2paData)>>)
      found == foundPatterns(textContent)
      jsonContent == jsonMatch(textContent)
      patterns == put(raw, Key("C2PA_Patterns", 0, Codes(fileType)),
                      Concat([k \in 1..Len(found) |->
                                (IF k = 1 THEN <<>> ELSE Codes(", ")) \o Codes(found[k])]))
      fields == IF jsonContent = <<>> THEN patterns
                ELSE extractC2PAFields(
                       jsonContent,
                       put(patterns, Key("C2PA_JSON", 0, Codes(fileType)),
                           SubSeq(jsonContent, 1, Min(1000, Len(jsonContent)))),
                       fileType)
  IN  IF found = <<>>
      THEN put(raw, Key("C2PA_Unknown", 0, Codes(fileType)), <<Len(c2paData)>>)
      ELSE [fields EXCEPT
              !.signatures = Append(@, [ tool |-> Codes("c2pa"),
                                         signature |-> Codes("C2PA Content Authenticity"),
                                         type |-> "authenticity", confidence |-> "high",
                                         source |-> fileType \o " C2PA" ]),
              !.details = Append(@, "C2PA Content Authenticity metadata detected in " \o fileType)]

\* ... and on the log.
parseC2PALog(c2paData, l) ==
  LET textContent == decode(c2paData)
      found == foundPatterns(textContent)
      jsonContent == jsonMatch(textContent)
      l1 == logAll(log(l, "Starting C2PA parsing", "INFO"),
                   [k \in 1..Len(found) |-> "Found C2PA pattern: " \o found[k]])
      l2 == IF jsonContent = <<>> THEN l1
            ELSE logAll(log(l1, "Extracted C2PA JSON content", "INFO"),
                   (IF FirstMatch(ClaimGeneratorPattern, jsonContent) # <<>>
                    THEN <<"C2PA Claim Generator">> ELSE <<>>) \o
                   (IF FirstMatch(ListPattern("assertions"), jsonContent) # <<>>
                    THEN <<"C2PA Assertions found">> ELSE <<>>) \o
                   (IF FirstMatch(ListPattern("ingredients"), jsonContent) # <<>>
                    THEN <<"C2PA Ingredients found">> ELSE <<>>))
  IN  IF found = <<>>
      THEN log(l1, "C2PA segment found but no recognizable patterns detected", "WARN")
      ELSE log(l2, "C2PA analysis complete", "INFO")

TextChunkTypes == {Codes("tEXt"), Codes("iTXt"), Codes("zTXt")}

TextChunkName(type) ==
  CASE type = Codes("tEXt") -> "tEXt" [] type = Codes("iTXt") -> "iTXt" [] OTHER -> "zTXt"

\* The chunk type whose branch (parsePNGEXIF) is not modelled; no file of
\* the model holds it.
UnmodelledChunkTypes == {Codes("eXIf")}

\* chunkData[i] as a stored value: nothing when it is undefined.
ElementValue(data, i) == IF Defined(data, i) THEN <<data[i + 1]>> ELSE <<>>

\* The branch of parsePNG for the chunk of this type at off, on results.
PngChunkResults(b, off, type, length, res, n) ==
  IF type \in TextChunkTypes
  THEN parsePNGTextChunk(slice(b, off + 8, off + 8 + length), TextChunkName(type), res, n)
  ELSE IF type = Codes("c2pa")
  THEN parseC2PA(slice(b, off + 8, off + 8 + length), res, "PNG")
  ELSE IF type = Codes("IHDR") /\ length >= 8
  THEN LET chunkData == slice(b, off + 8, off + 16)
       IN  put(put(put(res, Key("PNG_dimensions", 0, <<>>),
                            <<Be32(chunkData, 0), Be32(chunkData, 4)>>),
                       Key("PNG_bit_depth", 0, <<>>), ElementValue(chunkData, 8)),
               Key("PNG_color_type", 0, <<>>), ElementValue(chunkData, 9))
  ELSE res

\* ... and on the log.
PngChunkLog(b, off, type, length, res, l) ==
  IF type \in TextChunkTypes
  THEN TextChunkLog(slice(b, off + 8, off + 8 + length), TextChunkName(type), res,
                    log(l, "Found text chunk - extracting metadata", "INFO"))
  ELSE IF type = Codes("c2pa")
  THEN parseC2PALog(slice(b, off + 8, off + 8 + length),
                    log(l, "Found C2PA chunk - extracting metadata", "INFO"))
  ELSE IF type = Codes("IHDR") THEN (IF length >= 8 THEN log(l, "PNG Image", "INFO") ELSE l)
  ELSE IF type = Codes("IEND") THEN log(l, "Reached PNG end marker (IEND)", "INFO")
  ELSE log(l, "Found chunk - skipping", "INFO")

\* One test of the while condition of parsePNG and, when it holds, one pass
\* of the loop body.  Leaving the loop logs the completion and returns to
\* parseFile.
ParsePNGChunk ==
  /\ parsePc = "pngLoop"
  /\ LET length == Be32(bytes, offset)
         type == slice(bytes, offset + 4, offset + 8)
         n == chunkCount + 1
         l1 == log(parseLog, "PNG Chunk", "INFO")
         stored == put(results, Key("PNG_chunk", n, type), <<length>>)
         l2 == PngChunkLog(bytes, offset, type, length, stored, l1)
         nextOffset == offset + 8 + length + 4
         done(l) == log(l, "PNG parsing complete", "INFO")
     IN  IF ~(offset < Len(bytes) - 12)
         THEN /\ parseLog' = done(parseLog)
              /\ parsePc' = "scan"
              /\ UNCHANGED <<offset, chunkCount, results>>
         ELSE IF InvalidChunkLength(length, Len(bytes), offset)
         THEN /\ parseLog' = done(log(l1, "Invalid chunk length, file may be corrupted", "ERROR"))
              /\ parsePc' = "scan"
              /\ chunkCount' = n
              /\ UNCHANGED <<offset, results>>
         ELSE /\ type \notin UnmodelledChunkTypes
              /\ results' = PngChunkResults(bytes, offset, type, length, stored, n)
              /\ chunkCount' = n
              /\ IF type = Codes("IEND")
                 THEN /\ parseLog' = done(l2)
                      /\ parsePc' = "scan"
                      /\ UNCHANGED offset
                 ELSE IF nextOffset <= offset
                 THEN /\ parseLog' = done(log(l2, "Chunk progression error", "ERROR"))
                      /\ parsePc' = "scan"
                      /\ UNCHANGED offset
                 ELSE IF nextOffset > Len(bytes)
                 THEN /\ parseLog' = done(log(l2, "Chunk extends beyond file end", "WARN"))
                      /\ parsePc' = "scan"
                      /\ UNCHANGED offset
                 ELSE /\ offset' = nextOffset
                      /\ IF n > ChunkLimit
                         THEN /\ parseLog' = done(log(l2, "Too many chunks processed", "WARN"))
                              /\ parsePc' = "scan"
                         ELSE /\ parseLog' = l2
                              /\ parsePc' = "pngLoop"
  /\ UNCHANGED <<bytes, debugLog, page, calls, logOwner>>
  /\ UNCHANGED scorerVars

\* offset += 8 + size + (size % 2), with the size read at off + 4
RiffNext(b, off) == off + 8 + Le32(b, off + 4) + Rem(Le32(b, off + 4), 2)

\* One test of the while condition of parseWebP and one pass of its body.  The
\* EXIF branch (parseEXIF) is not modelled; no file of the model holds it.
ParseWebPChunk ==
  /\ parsePc = "webp"
  /\ LET fourcc == slice(bytes, offset, offset + 4)
         size == Le32(bytes, offset + 4)
         xmpText == decode(slice(bytes, offset + 8, offset + 8 + size))
     IN  IF ~(offset < Len(bytes) - 8)
         THEN /\ parsePc' = "scan"
              /\ UNCHANGED <<offset, results>>
         ELSE /\ fourcc # Codes("EXIF")
              /\ results' = IF fourcc = Codes("XMP ")
                            THEN checkForAISignatures(xmpText, "WebP XMP",
                                   put(results, Key("XMP", 0, <<>>), xmpText))
                            ELSE results
              /\ offset' = RiffNext(bytes, offset)
              /\ parsePc' = "webp"
  /\ UNCHANGED <<bytes, debugLog, page, calls, logOwner, chunkCount, parseLog>>
  /\ UNCHANGED scorerVars

AviTextChunks == {Codes("IDIT"), Codes("ISFT"), Codes("ICMT"), Codes("IART")}

AviSource(chunkId) ==
  CASE chunkId = Codes("IDIT") -> "AVI IDIT" [] chunkId = Codes("ISFT") -> "AVI ISFT"
    [] chunkId = Codes("ICMT") -> "AVI ICMT" [] OTHER -> "AVI IART"

\* The longest parse log the model follows; no parse that ends comes near it.
MaxLogEntries == 24

\* One test of the while condition of parseAVI and one pass of its body.  A
\* walk that does not advance logs an entry at every pass; it is followed until
\* the log holds MaxLogEntries entries.
ParseAVIChunk ==
  /\ parsePc = "avi"
  /\ LET chunkId == slice(bytes, offset, offset + 4)
         chunkSize == Le32(bytes, offset + 4)
         text == decode(slice(bytes, offset + 8, offset + 8 + chunkSize))
     IN  IF ~(offset < Len(bytes) - 8)
         THEN /\ parsePc' = "scan"
              /\ UNCHANGED <<offset, results, parseLog>>
         ELSE /\ Len(parseLog) < MaxLogEntries
              /\ parseLog' = log(parseLog, "Found AVI chunk", "INFO")
              /\ results' = IF chunkId \in AviTextChunks
                            THEN checkForAISignatures(text, AviSource(chunkId),
                                   put(results, Key("AVI", 0, chunkId),
                                       SubSeq(text, 1, Min(Len(text), 200))))
                            ELSE results
              /\ offset' = RiffNext(bytes, offset)
              /\ parsePc' = "avi"
  /\ UNCHANGED <<bytes, debugLog, page, calls, logOwner, chunkCount>>
  /\ UNCHANGED scorerVars

\* One test of the while condition of parseMP4 and one pass of its body:
\* offset += atomSize || 1.  The two atom types that start with the copyright
\* sign are left out.  A walk that comes back to an atom with a signature adds
\* a match at every round; it is followed until the matches number
\* MaxLogEntries.
ParseMP4Atom ==
  /\ parsePc = "mp4"
  /\ LET atomSize == Be32(bytes, offset)
         atomType == slice(bytes, offset + 4, offset + 8)
         text == decode(slice(bytes, offset + 8, offset + atomSize))
     IN  IF ~(offset < Len(bytes) - 8)
         THEN /\ parsePc' = "scan"
              /\ UNCHANGED <<offset, results>>
         ELSE /\ Len(results.signatures) < MaxLogEntries
              /\ results' = IF atomType \in {Codes("udta"), Codes("meta")}
                            THEN checkForAISignatures(text, "MP4 atom",
                                   put(results, Key("MP4", 0, atomType), text))
                            ELSE results
              /\ offset' = offset + (IF atomSize # 0 THEN atomSize ELSE 1)
              /\ parsePc' = "mp4"
  /\ UNCHANGED <<bytes, debugLog, page, calls, logOwner, chunkCount, parseLog>>
  /\ UNCHANGED scorerVars

\* One test of the while condition of parseAVIF and one pass of its body.  A
\* walk logs an entry at every pass; it is followed until the log holds
\* MaxLogEntries entries.
ParseAVIFBox ==
  /\ parsePc = "avif"
  /\ LET boxSize == Be32(bytes, offset)
         boxType == slice(bytes, offset + 4, offset + 8)
         text == decode(slice(bytes, offset + 8, offset + boxSize))
     IN  IF ~(offset < Len(bytes) - 8)
         THEN /\ parsePc' = "scan"
              /\ UNCHANGED <<offset, results, parseLog>>
         ELSE /\ Len(parseLog) < MaxLogEntries
              /\ Len(results.signatures) < MaxLogEntries
              /\ parseLog' = log(parseLog, "Found AVIF box", "INFO")
              /\ results' = IF boxType \in {Codes("meta"), Codes("uuid"), Codes("udta")}
                            THEN checkForAISignatures(text, "AVIF box",
                                   put(results, Key("AVIF", 0, boxType),
                                       SubSeq(text, 1, Min(Len(text), 500))))
                            ELSE results
              /\ offset' = offset + (IF boxSize # 0 THEN boxSize ELSE 1)
              /\ parsePc' = "avif"
  /\ UNCHANGED <<bytes, debugLog, page, calls, logOwner, chunkCount>>
  /\ UNCHANGED scorerVars

RECURSIVE ReadComment(_, _, _)
\* The inner loop of parseGIF over the sub-blocks of a comment extension: the
\* comment read and the offset the loop ends at.
ReadComment(b, off, comment) ==
  IF off < Len(b) /\ b[off + 1] # 0
  THEN ReadComment(b, off + 1 + b[off + 1],
                   comment \o decode(slice(b, off + 1, off + 1 + b[off + 1])))
  ELSE [offset |-> off, comment |-> comment]

RECURSIVE parseGIF(_, _, _)
\* The loop of parseGIF from off; every pass moves the offset forward.
parseGIF(b, off, res) ==
  IF ~(off < Len(b) - 3) THEN res
  ELSE IF b[off + 1] = 33 /\ b[off + 2] = 254
  THEN LET read == ReadComment(b, off + 2, <<>>)
       IN  parseGIF(b, read.offset + 1,
                    IF Len(read.comment) > 0
                    THEN checkForAISignatures(read.comment, "GIF Comment",
                           put(res, Key("GIF_Comment", 0, <<>>), read.comment))
                    ELSE res)
  ELSE parseGIF(b, off + 1, res)

\* parseGIF, which starts behind the header and the logical screen descriptor.
ParseGIF ==
  /\ parsePc = "gif"
  /\ results' = parseGIF(bytes, 13, results)
  /\ parsePc' = "scan"
  /\ UNCHANGED <<bytes, debugLog, page, calls, logOwner, offset, chunkCount, parseLog>>
  /\ UNCHANGED scorerVars

\* parseJPEG, which starts behind the start-of-image marker.
ParseJPEG ==
  /\ parsePc = "jpeg"
  /\ LET parsed == parseJPEG(bytes, 2, 0, results, parseLog)
     IN  /\ results' = parsed.results
         /\ parseLog' = parsed.parseLog
  /\ parsePc' = "scan"
  /\ UNCHANGED <<bytes, debugLog, page, calls, logOwner, offset, chunkCount>>
  /\ UNCHANGED scorerVars

ParseGeneric ==
  /\ parsePc = "generic"
  /\ results' = parseGeneric(bytes, results)
  /\ parseLog' = parseGenericLog(bytes, parseLog)
  /\ parsePc' = "scan"
  /\ UNCHANGED <<bytes, debugLog, page, calls, logOwner, offset, chunkCount>>
  /\ UNCHANGED scorerVars

\* The rest of parseFile on a log l: the comprehensive scan when the container
\* gave no signature, the confidence, the closing log entries.
parseFileEnd(b, res, l) ==
  LET scan == Len(res.signatures) = 0
      scanned == IF scan THEN performComprehensiveScan(b, res) ELSE res
      found == Len(scanned.signatures)
      l1 == IF scan
            THEN log(logAll(logAll(l,
                              << "No signatures found in metadata, performing comprehensive header scan",
                                 "Performing comprehensive file scan for AI signatures" >>),
                            [i \in 1..found |-> "Found AI signature in file header"]),
                     IF found > 0 THEN "Comprehensive scan found N AI signatures"
                     ELSE "No AI signatures found in comprehensive file scan", "INFO")
            ELSE l
      l2 == log(l1, "Final analysis", "INFO")
  IN  [ results |-> [scanned EXCEPT !.confidence = calculateConfidence(scanned.signatures)],
        parseLog |-> IF debugLog
                     THEN l2 \o [i \in 1..found |-> [level |-> "WARN", message |-> "Signature"]]
                     ELSE l2 ]

\* The rest of parseFile, and its return.
ScanAndReturn ==
  /\ parsePc = "scan"
  /\ LET ended == parseFileEnd(bytes, results, parseLog)
     IN  /\ results' = ended.results
         /\ parseLog' = ended.parseLog
  /\ parsePc' = "returned"
  /\ UNCHANGED <<bytes, debugLog, page, calls, logOwner, offset, chunkCount>>
  /\ UNCHANGED scorerVars

NextParser ==
  \/ ParseFile
  \/ ParsePNGSignature
  \/ ParsePNGChunk
  \/ ParseWebPChunk
  \/ ParseAVIChunk
  \/ ParseMP4Atom
  \/ ParseAVIFBox
  \/ ParseGIF
  \/ ParseJPEG
  \/ ParseGeneric
  \/ ScanAndReturn

SpecParser == InitParser /\ [][NextParser]_vars

\* ------------------------------------------------ properties of the parser

\* A walk over RIFF chunks is about to make a pass that leaves its offset
\* where it is: the while condition holds again after it, for ever.
Stalled ==
  /\ parsePc \in {"webp", "avi"}
  /\ offset < Len(bytes) - 8
  /\ RiffNext(bytes, offset) = offset

\* C7: the parse of no file throws, and no container walk comes to a pass that
\* does not advance, so that every parse ends and returns a result.
C7_ParseReturns == parsePc # "threw" /\ ~Stalled

\* The PNG format read off the file itself, lengths unsigned: the offsets of
\* the chunks that lie whole before the first chunk whose declared length
\* exceeds the bytes left after its header, and the offset of that chunk
\* (below zero when the file ends, or IEND comes, before one).
DeclaredTooLong(b, o) == b[o + 1] >= 128 \/ Be32(b, o) > Len(b) - (o + 8)

RECURSIVE PngWalk(_, _)
PngWalk(b, o) ==
  IF o + 8 > Len(b) THEN [before |-> <<>>, overrun |-> 0 - 1]
  ELSE IF DeclaredTooLong(b, o) THEN [before |-> <<>>, overrun |-> o]
  ELSE IF SubSeq(b, o + 5, o + 8) = Codes("IEND") THEN [before |-> <<o>>, overrun |-> 0 - 1]
  ELSE LET rest == PngWalk(b, o + 12 + Be32(b, o))
       IN  [before |-> <<o>> \o rest.before, overrun |-> rest.overrun]

\* The file is a valid PNG signature followed by chunks of which one declares a
\* length that exceeds the remaining buffer.
OverrunPng == HasAt(bytes, 0, PngSignature) /\ PngWalk(bytes, 8).overrun >= 0

\* The result holds the record of every chunk before the overrunning one, and
\* of no other chunk.
FieldsBeforeOverrun ==
  LET before == PngWalk(bytes, 8).before
      records == SelectSeq(results.rawMetadata, LAMBDA e : e.key.name = "PNG_chunk")
  IN  records = [i \in 1..Len(before) |->
                   [ key |-> Key("PNG_chunk", i, SubSeq(bytes, before[i] + 5, before[i] + 8)),
                     value |-> <<Be32(bytes, before[i])>> ]]

\* The returned result carries a warning about the structure of the file.
Warned ==
  \E i \in 1..Len(parseLog) :
    parseLog[i].level \in {"ERROR", "WARN"} /\ parseLog[i].message # "Signature"

\* C8: the parse of such a file returns the fields recovered before
\* the overrunning chunk together with a warning.
C8_TruncationWarned ==
  (parsePc = "returned" /\ OverrunPng) => (FieldsBeforeOverrun /\ Warned)

\* How many matches of the returned parse have this confidence.
Matches(c) ==
  Cardinality({i \in 1..Len(results.signatures) : results.signatures[i].confidence = c})

GifComments ==
  { results.rawMetadata[i].value :
      i \in { j \in 1..Len(results.rawMetadata) :
                results.rawMetadata[j].key.name = "GIF_Comment" } }

\* C13: matching one metadata field (here the comment of a GIF file) against
\* the catalog yields a match for every catalog entry of three characters or
\* more that the field text contains.
C13_AllMatchesCollected ==
  (parsePc \in {"scan", "returned"} /\ results.fileType = "GIF") =>
    \A comment \in GifComments :
      \A k \in CatalogHits(comment) :
        \E i \in 1..Len(results.signatures) :
          /\ results.signatures[i].source = "GIF Comment"
          /\ results.signatures[i].signature = Catalog[k]

GenericTokens == {Codes("generated"), Codes("artificial"), Codes("synthetic")}

\* The match was made on a generic token of the file: by the scan, whose
\* signature is the matched text, or by the generic branch of
\* analyzeAIParameters, whose matches have type metadata.
OnGenericToken(sig) ==
  /\ sig.tool = Codes("generic-ai")
  /\ \E t \in GenericTokens : Includes(toLowerCase(bytes), t)
  /\ \/ sig.type = "file-header" /\ toLowerCase(sig.signature) \in GenericTokens
     \/ sig.type = "metadata"

\* C14: a match on a generic token has confidence low, whatever field, chunk
\* type or container it was found in.
C14_GenericTokenIsLow ==
  parsePc = "returned" =>
    \A i \in 1..Len(results.signatures) :
      OnGenericToken(results.signatures[i]) => results.signatures[i].confidence = "low"

\* ---------------------------- analyzeMedia over fetched bytes, end to end

RECURSIVE Text(_)
\* A text of character codes as the string the scorer reads; a character
\* that is not printable ASCII shows as a question mark.
Text(cs) ==
  IF cs = <<>> THEN ""
  ELSE (IF Head(cs) \in 32..126 THEN SubSeq(Printable, Head(cs) - 31, Head(cs) - 31) ELSE "?")
       \o Text(Tail(cs))

\* The object parseFile returned, as performSignatureAnalysis hands it to
\* analyzeMedia.
ParseResult(res) ==
  [ signatures |-> [i \in 1..Len(res.signatures) |->
                      [res.signatures[i] EXCEPT !.tool = Text(@), !.signature = Text(@)]],
    details |-> res.details ]

\* The calls of analyzeMedia followed end to end: an image, with or without
\* its IMG element, at a URL that matches no pattern or the Midjourney CDN.
PipelineRequests ==
  { [url |-> url, mediaType |-> "image", element |-> element] :
      url \in { u \in Urls :
                 /\ u.urlPattern # Null => u.urlPattern.confidence = "high"
                 /\ u.filenamePattern = Null
                 /\ u.urlSignature = Null },
      element \in {NoTool, "IMG"} }

\* analyzeMedia has been called and has built its analysis object; the
\* parser has been handed no file.
InitPipeline ==
  /\ pc = "signature"
  /\ req \in PipelineRequests
  /\ analysis = NewAnalysis(req.url, req.mediaType)
  /\ fetched = "notYet"
  /\ signatureAnalysis = Null
  /\ scores = Null
  /\ result = Null
  /\ bytes = <<>>
  /\ debugLog = FALSE
  /\ parsePc = "noFile"
  /\ offset = 0
  /\ chunkCount = 0
  /\ results = Null
  /\ parseLog = <<>>
  /\ calls = <<>>
  /\ logOwner = 0
  /\ page = Null

\* performSignatureAnalysis: fetchViaBackground answers success with the bytes
\* of the file, and parseFile is called on them.
FetchSucceeds ==
  /\ pc = "signature"
  /\ parsePc = "noFile"
  /\ \E file \in Files : bytes' = file
  /\ parsePc' = "idle"
  /\ pc' = "parsing"
  /\ UNCHANGED <<req, fetched, signatureAnalysis, scores, analysis, result>>
  /\ UNCHANGED <<debugLog, page, calls, logOwner, offset, chunkCount, results, parseLog>>

\* performSignatureAnalysis: the response says success: false, or the promise
\* rejects; the URL-based analysis is returned.
FetchFails ==
  /\ pc = "signature"
  /\ parsePc = "noFile"
  /\ \E outcome \in {"notSuccess", "rejected"} :
       /\ fetched' = outcome
       /\ SignatureAnalysed(performSignatureAnalysis(req.url, outcome, <<>>))
  /\ UNCHANGED <<req, result>>
  /\ UNCHANGED parserVars

\* parseFile returned: its result is the signature analysis.
ParseReturned ==
  /\ pc = "parsing"
  /\ parsePc = "returned"
  /\ fetched' = "parsed"
  /\ SignatureAnalysed(ParseResult(results))
  /\ UNCHANGED <<req, result>>
  /\ UNCHANGED parserVars

\* parseFile threw: the catch of performSignatureAnalysis swallows the error
\* and the URL-based analysis is returned.
ParseThrew ==
  /\ pc = "parsing"
  /\ parsePc = "threw"
  /\ fetched' = "parseThrows"
  /\ SignatureAnalysed(performSignatureAnalysis(req.url, "parseThrows", <<>>))
  /\ UNCHANGED <<req, result>>
  /\ UNCHANGED parserVars

NextPipeline ==
  \/ FetchSucceeds
  \/ FetchFails
  \/ ParseFile
  \/ ParsePNGSignature
  \/ ParsePNGChunk
  \/ ParseWebPChunk
  \/ ParseAVIChunk
  \/ ParseMP4Atom
  \/ ParseAVIFBox
  \/ ParseGIF
  \/ ParseJPEG
  \/ ParseGeneric
  \/ ScanAndReturn
  \/ ParseReturned
  \/ ParseThrew
  \/ ColorCountStep
  \/ ScoreStep
  \/ ReturnResult

SpecPipeline == InitPipeline /\ [][NextPipeline]_vars

\* The fields every AnalysisResult carries.
ResultFields == {"isAI", "confidence", "aiScore", "signatures", "details"}

\* analyzeMedia waits for a parseFile whose chunk loop no longer moves.
AnalysisStalled == pc = "parsing" /\ Stalled

\* C5: every anticipated failure mode (malformed or unsupported container,
\* pixel access denied, fetch failure) ends in a well-formed AnalysisResult:
\* the analysis never waits on a parse that cannot end, and the result
\* returned carries isAI, confidence, aiScore, signatures and details.
C5_FailureYieldsResult ==
  /\ ~AnalysisStalled
  /\ pc = "returned" =>
       /\ result # Null
       /\ ResultFields \subseteq DOMAIN result

\* The generation-parameter tokens.
SdTokens ==
  { Codes("steps:"), Codes("sampler:"), Codes("cfg scale:"), Codes("seed:"),
    Codes("model hash:"), Codes("negative prompt:") }

\* The names under which parsePNGTextChunk and parseJPEG store a text field.
TextFieldNames ==
  { "PNG_tEXt", "PNG_iTXt", "PNG_zTXt",
    "JPEG_Comment", "JPEG_APP", "JPEG_XMP", "JPEG_APP1_Unknown" }

\* The text fields of the parsed file.
TextFields ==
  { results.rawMetadata[i].value :
      i \in { j \in 1..Len(results.rawMetadata) :
                results.rawMetadata[j].key.name \in TextFieldNames } }

\* The text fields that contain at least two of the tokens.
ParameterFields ==
  { f \in TextFields : Cardinality({ t \in SdTokens : Includes(toLowerCase(f), t) }) >= 2 }

\* C15: a PNG or JPEG file with a text field that contains at least two of
\* the generation-parameter tokens is returned with a high-confidence
\* stable-diffusion match and isAI = true.
C15_ParameterBlockDetected ==
  (/\ pc = "returned"
   /\ fetched = "parsed"
   /\ results.fileType \in {"PNG", "JPEG"}
   /\ ParameterFields # {})
    => /\ \E i \in 1..Len(result.signatures) :
            /\ result.signatures[i].tool = "stable-diffusion"
            /\ result.signatures[i].confidence = "high"
       /\ result.isAI

\* The Midjourney command flags.
MidjourneyFlags ==
  { Codes("--ar"), Codes("--v"), Codes("--stylize"), Codes("--chaos"), Codes("--quality") }

\* The text fields that contain one of the flags.
FlagFields ==
  { f \in TextFields : \E flag \in MidjourneyFlags : Includes(toLowerCase(f), flag) }

\* C16: the parse of a PNG or JPEG file with a text field that contains a
\* Midjourney command flag returns a high-confidence midjourney match,
\* whatever else the field matches.
C16_MidjourneyFlagDetected ==
  (/\ parsePc = "returned"
   /\ results.fileType \in {"PNG", "JPEG"}
   /\ FlagFields # {})
    => \E i \in 1..Len(results.signatures) :
         /\ results.signatures[i].tool = Codes("midjourney")
         /\ results.signatures[i].confidence = "high"

\* C17: a file that is only the minimal magic-byte header of a supported
\* format is detected as that format's container type.
C17_MinimalHeaderDetected ==
  (parsePc # "idle" /\ results # Null) =>
    \A type \in DOMAIN MinimalHeader :
      bytes = MinimalHeader[type] => results.fileType = type

\* ------------------------------------------- the fallback of the CGI detector
\* CGIDetector (unnamed/part_008) built without a signature database, as the
\* analyzers build it: analyzeImage on an image whose pixels cannot be read
\* returns fallbackAnalysis(image).  An image is [naturalWidth, naturalHeight,
\* filename], filename being the last part of the path of image.src.  The
\* indicator texts are kept up to the bracketed dimensions and the file name
\* they end with; colorDiversity and saturationRatio, two more random draws,
\* are left out.

\* The images analysed: 1536x1536 (square, a common AI size), 1024x1024 (and
\* powers of two), two standard cartoon sizes, a portrait AI size, a cartoon
\* file name, and two sizes no test recognises.
Images ==
  { [naturalWidth |-> d[1], naturalHeight |-> d[2], filename |-> d[3]] :
      d \in { <<1536, 1536, "photo.jpg">>, <<1024, 1024, "a.png">>,
              <<1024, 768, "img.jpg">>, <<640, 480, "img.jpg">>,
              <<512, 768, "b.png">>, <<300, 200, "Cartoon_cat.png">>,
              <<801, 601, "x.jpg">>, <<500, 500, "y.jpg">> } }

\* estimateColorMetrics: the values uniqueColors can take.  Math.random() is a
\* draw: Math.floor(Math.random() * n) + k is any of k .. k + n - 1.  The
\* factors 0.7 and 0.8 are applied before Math.round, in hundredths here; no
\* indicator holds 'AI signature' when the detector has no signature database.
estimateColorMetrics(width, height, indicators, confidence, actualFilename) ==
  LET Has(word) == \E i \in 1..Len(indicators) : Includes(indicators[i], word)
      isCartoonFilename(name) ==
        \E n \in { "dexter", "ppg", "powerpuff", "futurama", "cartoon", "anime",
                   "animation", "toon", "simpson", "family_guy", "rick_morty",
                   "south_park", "adventure_time", "gravity_falls" } :
          Includes(ToLowerCase(name), n)
      filename == IF actualFilename # "" THEN actualFilename
                  ELSE IF width = 1024 /\ height = 768 THEN "dexter.jpg"
                  ELSE IF width = 640 /\ height = 480 THEN "ppg.jpg"
                  ELSE ""
      isCartoonDimensions ==
        <<width, height>> \in
          { <<640, 480>>, <<800, 600>>, <<1024, 768>>, <<1280, 720>>, <<1920, 1080>>,
            <<480, 640>>, <<600, 800>>, <<768, 1024>>, <<720, 1280>>, <<1080, 1920>>,
            <<720, 480>>, <<720, 576>>, <<854, 480>>, <<1280, 960>>, <<1440, 1080>> }
      cartoonScore ==
        Cardinality({ i \in 1..Len(indicators) : Includes(indicators[i], "cartoon") })
      isCartoonRatio == \/ 100 * width - 133 * height \in (-5 * height + 1)..(5 * height - 1)
                        \/ 100 * width - 178 * height \in (-5 * height + 1)..(5 * height - 1)
      isDefinitelyCartoon == cartoonScore >= 2 \/ (cartoonScore >= 1 /\ isCartoonRatio)
      drawn == IF confidence > 70 THEN 20..69
               ELSE IF confidence > 40 THEN 50..149
               ELSE {1000}
      hundredths == (IF Has("square aspect ratio") THEN 70 ELSE 100)
                    * (IF Has("power-of-2 dimensions") THEN 80 ELSE 100)
      cartoonIndicators ==
        \/ Has("standard cartoon dimensions") \/ Has("cartoon aspect ratio")
        \/ Has("even pixel dimensions") \/ Has("power-of-2 dimensions")
  IN  IF isCartoonFilename(filename) \/ isCartoonDimensions \/ Has("cartoon")
         \/ isDefinitelyCartoon
      THEN 8..22
      ELSE IF cartoonIndicators THEN 8..27
      ELSE { (u * hundredths + 5000) \div 10000 : u \in drawn }

\* fallbackAnalysis: the results it can return for an image.  Without a
\* signature database performSignatureAnalysis is not called and
\* analyzeImageAttributes adds nothing.
fallbackAnalysis(image) ==
  LET width == image.naturalWidth
      height == image.naturalHeight
      Near(ratio) == 100 * width - ratio * height \in (-5 * height + 1)..(5 * height - 1)
      isPowerOfTwo(n) == n \in {1, 2, 4, 8, 16, 32, 64, 128, 256, 512, 1024, 2048, 4096}
      When(cond, points, indicator) ==
        IF cond THEN [points |-> points, indicators |-> <<indicator>>]
        ELSE [points |-> 0, indicators |-> <<>>]
      square == When(10 * width - 10 * height \in (1 - height)..(height - 1),
                     20, "square aspect ratio")
      common == When(\E d \in { <<512, 512>>, <<1024, 1024>>, <<1024, 768>>, <<768, 1024>>,
                                <<512, 768>>, <<768, 512>>, <<1536, 1536>> } :
                       <<width, height>> = d \/ <<height, width>> = d,
                     25, "common AI dimensions")
      \* analyzeCartoonCharacteristics
      dimensions == When(<<width, height>> \in
                           { <<640, 480>>, <<800, 600>>, <<1024, 768>>, <<1280, 720>>,
                             <<1920, 1080>>, <<480, 640>>, <<600, 800>>, <<768, 1024>>,
                             <<720, 1280>>, <<1080, 1920>>, <<720, 480>>, <<720, 576>>,
                             <<854, 480>>, <<1280, 960>>, <<1440, 1080>> },
                         25, "standard cartoon dimensions")
      ratio == When(Near(133) \/ Near(178) \/ Near(75) \/ Near(56), 20, "cartoon aspect ratio")
      even == When(width % 2 = 0 /\ height % 2 = 0, 15, "even pixel dimensions")
      either == When(isPowerOfTwo(width) \/ isPowerOfTwo(height), 10, "power-of-2 dimensions")
      cartoonScore == dimensions.points + ratio.points + even.points + either.points
      cartoon == IF cartoonScore >= 30
                 THEN [ points |-> cartoonScore
                                   + (IF cartoonScore >= 20 THEN 40
                                      ELSE IF cartoonScore >= 10 THEN 30 ELSE 0),
                        indicators |-> dimensions.indicators \o ratio.indicators
                                       \o even.indicators \o either.indicators
                                       \o (IF cartoonScore >= 20 THEN <<"cartoon content detected">>
                                           ELSE IF cartoonScore >= 10
                                           THEN <<"cartoon indicators detected">> ELSE <<>>) ]
                 ELSE [points |-> 0, indicators |-> <<>>]
      both == When(isPowerOfTwo(width) /\ isPowerOfTwo(height), 15, "power-of-2 dimensions")
      named == When(\E n \in { "dexter", "ppg", "powerpuff", "futurama", "cartoon", "anime",
                               "animation", "toon", "simpson", "family_guy", "rick_morty",
                               "south_park", "adventure_time", "gravity_falls" } :
                      Includes(ToLowerCase(image.filename), n),
                    50, "cartoon filename detected")
      confidence == square.points + common.points + cartoon.points + both.points + named.points
      indicators == square.indicators \o common.indicators \o cartoon.indicators
                    \o both.indicators \o named.indicators
  IN  { [ isCGI |-> confidence > 30,
          confidence |-> Min(confidence, 100),
          indicators |-> indicators,
          metrics |-> [uniqueColors |-> uniqueColors] ] :
          uniqueColors \in estimateColorMetrics(width, height, indicators, confidence,
                                                image.filename) }

\* No detector call has been made.
InitFallback == ScorerIdle /\ ParserIdle

\* analyzeImage on an image whose pixels cannot be read: the first call is on
\* any image, the second on the image of the first.
AnalyzeImage ==
  /\ Len(calls) < 2
  /\ \E image \in IF calls = <<>> THEN Images ELSE {calls[1].image} :
       \E returned \in fallbackAnalysis(image) :
         calls' = Append(calls, [image |-> image, returned |-> returned])
  /\ UNCHANGED <<bytes, debugLog, page, parsePc, offset, chunkCount, results, parseLog, logOwner>>
  /\ UNCHANGED scorerVars

SpecFallback == InitFallback /\ [][AnalyzeImage]_vars

\* C18: two analyses of one image whose pixels cannot be read return the same
\* result: the same classification, confidence and colour metrics.
C18_RepeatedAnalysisAgrees ==
  \A i, j \in 1..Len(calls) :
    calls[i].image = calls[j].image => calls[i].returned = calls[j].returned

\* ------------------------------------------- two parses on one HeaderParser
\* AIDetector holds one HeaderParser and the message listener of content.js
\* starts an analysis per message without waiting for the one before, so two
\* parseFile calls can be in flight on one parser.  A call runs unbroken up to
\* an await.  Each call is [bytes, pc, results, parseLog]: parseLog is the
\* array the call created at its line 22, which its results.parseLog refers to,
\* and logOwner is the call whose array this.parseLog refers to now.  The
\* files are those whose container parse the model has as one operator.

\* The container parse of the switch of parseFile, on a log l.
parseContainer(b, res, l) ==
  CASE res.fileType = "JPEG" -> parseJPEG(b, 2, 0, res, l)
    [] res.fileType = "GIF" -> [results |-> parseGIF(b, 13, res), parseLog |-> l]
    [] OTHER -> [results |-> parseGeneric(b, res), parseLog |-> parseGenericLog(b, l)]

\* parseFile running alone on a new parser: what it returns.
parseFileAlone(b) ==
  LET started == parseFileStart(b, <<>>)
      parsed == parseContainer(b, started.results, started.parseLog)
  IN  parseFileEnd(b, parsed.results, parsed.parseLog)

InitConcurrent ==
  /\ ScorerIdle
  /\ bytes = <<>>
  /\ debugLog \in BOOLEAN
  /\ parsePc = "idle"
  /\ offset = 0
  /\ chunkCount = 0
  /\ results = Null
  /\ parseLog = <<>>
  /\ calls \in [ 1..2 -> { [bytes |-> f, pc |-> "called", results |-> Null, parseLog |-> <<>>] :
                             f \in { g \in Files : detectFileType(g) \in {"JPEG", "GIF"} } } ]
  /\ logOwner = 0
  /\ page = Null

\* parseFile from its first line to the await of the container parse: the
\* log is reset to a new array, which becomes the parser's.
ParseFileCall ==
  /\ \E i \in 1..2 :
       /\ calls[i].pc = "called"
       /\ LET started == parseFileStart(calls[i].bytes, <<>>)
              parsed == parseContainer(calls[i].bytes, started.results, started.parseLog)
          IN  calls' = [calls EXCEPT ![i] = [ bytes |-> @.bytes, pc |-> "parsed",
                                              results |-> parsed.results,
                                              parseLog |-> parsed.parseLog ]]
       /\ logOwner' = i
  /\ UNCHANGED <<bytes, debugLog, page, parsePc, offset, chunkCount, results, parseLog>>
  /\ UNCHANGED scorerVars

\* parseFile after that await, to its return: its entries go to the array
\* this.parseLog refers to by then.  The await of the scan is not followed
\* apart.
ParseFileResume ==
  /\ \E i \in 1..2 :
       /\ calls[i].pc = "parsed"
       /\ LET ended == parseFileEnd(calls[i].bytes, calls[i].results, calls[logOwner].parseLog)
              logged == [calls EXCEPT ![logOwner].parseLog = ended.parseLog]
          IN  calls' = [logged EXCEPT ![i].pc = "returned", ![i].results = ended.results]
  /\ UNCHANGED <<bytes, debugLog, page, parsePc, offset, chunkCount, results, parseLog, logOwner>>
  /\ UNCHANGED scorerVars

SpecConcurrent == InitConcurrent /\ [][ParseFileCall \/ ParseFileResume]_vars

\* C19: whatever the interleaving of two analyses, the result a parse has
\* returned is the result of that parse running alone.
C19_ConcurrentAsAlone ==
  \A i \in DOMAIN calls :
    calls[i].pc = "returned" =>
      [results |-> calls[i].results, parseLog |-> calls[i].parseLog]
        = parseFileAlone(calls[i].bytes)

\* ------------------------------------ the analyzer of the content script
\* BotOrNotAnalyzer of src/js/content.js: detectAISignatures hands on the
\* signatures of parseFile, the CGI detector of src/js/cgiDetector.js gives
\* the colour count and the share of smooth gradients (in percent here), and
\* buildAnalysisResult classifies.  The thresholds are those of the config
\* the extension passes: 330 and 480 colours, 38 and 55 percent.

buildAnalysisResult(headerAnalysis, cgiAnalysis) ==
  LET colorCount == cgiAnalysis.metrics.uniqueColors
      gradientRatio == cgiAnalysis.metrics.gradientRatio
      visual ==
        IF colorCount < 330
        THEN [ confidence |-> "high", detectedTool |-> "Cartoon/Animation",
               method |-> "color-palette-analysis", contentType |-> "cartoon" ]
        ELSE IF colorCount < 480 /\ gradientRatio > 38
        THEN [ confidence |-> "high", detectedTool |-> "CGI/3D Render",
               method |-> "gradient-analysis", contentType |-> "cgi" ]
        ELSE IF colorCount >= 480 /\ gradientRatio > 55
        THEN [ confidence |-> "medium", detectedTool |-> "CGI or Heavy Filter",
               method |-> "gradient-analysis", contentType |-> "filtered" ]
        ELSE IF colorCount >= 300
        THEN [ confidence |-> "low", detectedTool |-> NoTool,
               method |-> "visual-analysis", contentType |-> "organic" ]
        ELSE [ confidence |-> "medium", detectedTool |-> "CGI/Digital Art",
               method |-> "color-threshold-analysis", contentType |-> "cgi" ]
      classified ==
        IF Len(headerAnalysis.signatures) > 0
        THEN [ confidence |-> "high", detectedTool |-> headerAnalysis.signatures[1].tool,
               method |-> "signature-detection", contentType |-> "ai" ]
        ELSE IF cgiAnalysis # Null /\ ~cgiAnalysis.corsBlocked THEN visual
        ELSE [ confidence |-> "none", detectedTool |-> NoTool,
               method |-> IF cgiAnalysis # Null THEN "blocked-by-cors" ELSE "no-analysis",
               contentType |-> "unknown" ]
  IN  [ confidence |-> classified.confidence,
        isAI |-> Len(headerAnalysis.signatures) > 0,
        detectedTool |-> classified.detectedTool,
        method |-> classified.method,
        signatures |-> headerAnalysis.signatures,
        cgiDetection |-> cgiAnalysis,
        contentType |-> classified.contentType ]

\* analyzeMedia of that analyzer once parseFile has returned: no IMG element
\* (no colour analysis), pixels blocked, or one of five readings.
BuildAnalysisResult ==
  /\ parsePc = "returned"
  /\ pc = "idle"
  /\ \E cgiAnalysis \in
         {Null} \cup
         { [corsBlocked |-> m[1], metrics |-> [uniqueColors |-> m[2], gradientRatio |-> m[3]]] :
             m \in { <<TRUE, 0, 0>>, <<FALSE, 100, 10>>, <<FALSE, 400, 45>>,
                     <<FALSE, 400, 10>>, <<FALSE, 500, 60>>, <<FALSE, 600, 10>> } } :
       result' = buildAnalysisResult(ParseResult(results), cgiAnalysis)
  /\ pc' = "returned"
  /\ UNCHANGED <<req, fetched, signatureAnalysis, scores, analysis>>
  /\ UNCHANGED parserVars

SpecContent == InitParser /\ [][NextParser \/ BuildAnalysisResult]_vars

\* C20: in a returned result with signature matches, detectedTool is the tool
\* of a match no other match exceeds in confidence; with none and a colour
\* analysis that classified the image as rendered, it is a label of that
\* class; else it is null.
C20_DetectedToolOfBestMatch ==
  pc = "returned" =>
    LET sigs == result.signatures
    IN  IF Len(sigs) > 0
        THEN \E i \in 1..Len(sigs) :
               /\ result.detectedTool = sigs[i].tool
               /\ \A j \in 1..Len(sigs) :
                    confidenceOrder(sigs[j].confidence) <= confidenceOrder(sigs[i].confidence)
        ELSE IF result.contentType \in {"cartoon", "cgi", "filtered"}
        THEN result.detectedTool \in { "Cartoon/Animation", "CGI/3D Render",
                                       "CGI or Heavy Filter", "CGI/Digital Art" }
        ELSE result.detectedTool = NoTool

\* ------------------------------------- the pixel engine of the content script
\* CGIDetector of src/js/cgiDetector.js.  The image data is the sequence of
\* the pixels the loop of analyzePixelPatterns visits (every fourth one), each
\* <<r, g, b, a>>.  A gradientRatio is held in hundredths: 50 is the 0.5 of
\* getFallbackAnalysis, and the whole number n that analyzePixelPatterns
\* returns is 100 * n.

MaxPixels == 3

\* analyzePixelPatterns: Math.round(gradientRatio * 100) rounds halves up.
analyzePixelPatterns(pixels) ==
  LET Abs(x) == IF x < 0 THEN -x ELSE x
      opaque == { i \in 1..Len(pixels) : ~(pixels[i][4] < 128) }
      totalPixels == Cardinality(opaque)
      gradientPixels ==
        Cardinality({ i \in opaque :
                        /\ i < Len(pixels)
                        /\ Abs(pixels[i][1] - pixels[i + 1][1])
                           + Abs(pixels[i][2] - pixels[i + 1][2])
                           + Abs(pixels[i][3] - pixels[i + 1][3]) < 30 })
      colorFrequency ==
        { << (pixels[i][1] \div 32) * 32, (pixels[i][2] \div 32) * 32,
             (pixels[i][3] \div 32) * 32 >> : i \in opaque }
      rounded == IF totalPixels > 0
                 THEN (200 * gradientPixels + totalPixels) \div (2 * totalPixels)
                 ELSE 0
  IN  [gradientRatio |-> 100 * rounded, uniqueColors |-> Cardinality(colorFrequency)]

\* analyzeVisualCharacteristics: read is the image data, "denied" when
\* getImageData throws (getFallbackAnalysis), "failed" when drawImage throws
\* and the error is thrown on.
analyzeVisualCharacteristics(read) ==
  IF read = <<"denied">>
  THEN [uniqueColors |-> 500, gradientRatio |-> 50, corsBlocked |-> TRUE, fallback |-> TRUE]
  ELSE IF read = <<"failed">> THEN [error |-> TRUE]
  ELSE analyzePixelPatterns(read)

\* analyzeImage of that detector, on any image data of up to MaxPixels visited
\* pixels, or on an image that cannot be read or drawn.
AnalyzeVisualCharacteristics ==
  /\ calls = <<>>
  /\ \E read \in {<<"denied">>, <<"failed">>}
                 \cup UNION { [1..n -> { <<255, 0, 0, 255>>, <<250, 5, 0, 255>>,
                                         <<0, 0, 255, 255>>, <<40, 40, 40, 200>>,
                                         <<0, 0, 0, 0>> }] : n \in 0..MaxPixels } :
       LET metrics == analyzeVisualCharacteristics(read)
           blocked == read = <<"denied">>
           failed == read = <<"failed">>
           isCGI == ~failed /\ ~blocked /\ metrics.uniqueColors < 200
           \* gradientRatio > 0.8, > 0.7
           editingConfidence == IF failed \/ blocked \/ isCGI THEN 0
                                ELSE IF metrics.gradientRatio > 80 THEN 85
                                ELSE IF metrics.gradientRatio > 70 THEN 65
                                ELSE 0
       IN  calls' = << [ imageData |-> read,
                         returned |-> [ isCGI |-> isCGI,
                                        isEdited |-> editingConfidence > 0,
                                        confidence |-> IF isCGI THEN 90 ELSE editingConfidence,
                                        metrics |-> metrics ] ] >>
  /\ UNCHANGED <<bytes, debugLog, page, parsePc, offset, chunkCount, results, parseLog, logOwner>>
  /\ UNCHANGED scorerVars

SpecPixels == InitFallback /\ [][AnalyzeVisualCharacteristics]_vars

\* C21: the metrics of every analysis that read or was denied the pixels hold
\* a colour count that is a natural number and a gradient ratio between 0 and
\* 1 (0 to 100 hundredths).
C21_MetricsInRange ==
  \A i \in 1..Len(calls) :
    LET metrics == calls[i].returned.metrics
    IN  "error" \notin DOMAIN metrics =>
          /\ metrics.uniqueColors \in Nat
          /\ metrics.gradientRatio \in 0..100

\* ------------------------------------------------ the walks over ISO boxes

\* MP4 and AVIF files of up to MaxChunks boxes behind the ftyp box: a box of
\* two bytes, a udta box that names a tool, a box whose size field is zero and
\* one whose size field is negative (-12) as a 32-bit number.
BoxFiles ==
  LET Box(type, data) == Be32Bytes(8 + Len(data)) \o Codes(type) \o data
  IN  Container(MinimalHeader["MP4"],
                { Box("free", <<1, 2>>), Box("udta", Codes("Midjourney")),
                  <<0, 0, 0, 0>> \o Codes("free"), <<255, 255, 255, 244>> \o Codes("free") })
      \cup Container(MinimalHeader["AVIF"],
                     { Box("free", <<1, 2>>), Box("udta", Codes("Midjourney")),
                       <<0, 0, 0, 0>> \o Codes("free"), <<255, 255, 255, 244>> \o Codes("free") })

InitBoxes ==
  /\ ScorerIdle
  /\ bytes \in BoxFiles
  /\ debugLog \in BOOLEAN
  /\ parsePc = "idle"
  /\ offset = 0
  /\ chunkCount = 0
  /\ results = Null
  /\ parseLog = <<>>
  /\ calls = <<>>
  /\ logOwner = 0
  /\ page = Null

SpecBoxes == InitBoxes /\ [][ParseFile \/ ParseMP4Atom \/ ParseAVIFBox \/ ScanAndReturn]_vars

\* C22: a pass of the box walk over a box whose size field is zero or negative
\* ends the walk, and every other pass moves the offset forward.
C22_BoxWalkAdvances ==
  [][ (parsePc \in {"mp4", "avif"} /\ offset < Len(bytes) - 8) =>
        IF Be32(bytes, offset) <= 0 THEN parsePc' = "scan"
        ELSE offset' > offset ]_vars

\* ------------------------------------------------ PNG files of many chunks

\* How many chunks over the limit the files of SpecChunks go.
MaxChunksOver == 3

\* PNG files of empty tIME chunks, 1000 of them and more.  The loop needs 12
\* bytes behind the offset it looks at, so it can pass all chunks but the last.
ManyChunkPngs ==
  LET chunk == <<0, 0, 0, 0>> \o Codes("tIME") \o <<0, 0, 0, 0>>
  IN  { PngSignature \o [i \in 1..(12 * n) |-> chunk[((i - 1) % 12) + 1]] :
          n \in ChunkLimit..(ChunkLimit + MaxChunksOver) }

\* The chunk types for which a pass of the loop does more than file the
\* chunk under its number.
SpecialChunkTypes ==
  TextChunkTypes \cup UnmodelledChunkTypes
    \cup {Codes("c2pa"), Codes("IHDR"), Codes("IEND")}

\* The most passes of the loop of parsePNG that ParsePNGPlainChunks takes
\* in one step.
MaxPasses == 25

RECURSIVE PlainWalk(_, _, _, _)
\* The offsets of the next chunks, at most left of them, that the loop of
\* parsePNG passes from off on after n chunks, in a file of chunks that lie
\* within the file: the while condition, chunkCount++, offset = nextOffset
\* and the break at chunkCount > 1000.
PlainWalk(b, off, n, left) ==
  IF left = 0 \/ ~(off < Len(b) - 12) THEN <<>>
  ELSE <<off>> \o (IF n + 1 > ChunkLimit THEN <<>>
                   ELSE PlainWalk(b, off + 8 + Be32(b, off) + 4, n + 1, left - 1))

\* Up to MaxPasses passes of the loop of parsePNG over chunks that all lie
\* within the file and are of no special type: as many steps of ParsePNGChunk
\* taken together.  The loop is left when the while condition fails or the
\* count has passed the limit.
ParsePNGPlainChunks ==
  /\ parsePc = "pngLoop"
  /\ LET walked == PlainWalk(bytes, offset, chunkCount, MaxPasses)
         m == Len(walked)
         n == chunkCount + m
         type(k) == slice(bytes, walked[k] + 4, walked[k] + 8)
         length(k) == Be32(bytes, walked[k])
         passes == [k \in 1..(2 * m) |->
                      [level |-> "INFO",
                       message |-> IF k % 2 = 1 THEN "PNG Chunk"
                                   ELSE "Found chunk - skipping"]]
         l == IF debugLog THEN parseLog \o passes ELSE parseLog
     IN  /\ \A k \in 1..m :
              /\ ~InvalidChunkLength(length(k), Len(bytes), walked[k])
              /\ type(k) \notin SpecialChunkTypes
         /\ chunkCount' = n
         /\ offset' = IF m = 0 THEN offset ELSE walked[m] + 8 + length(m) + 4
         /\ results' = [results EXCEPT !.rawMetadata =
              @ \o [k \in 1..m |->
                      [key |-> Key("PNG_chunk", chunkCount + k, type(k)),
                       value |-> <<length(k)>>]]]
         /\ IF n > ChunkLimit
            THEN /\ parseLog' = log(log(l, "Too many chunks processed", "WARN"),
                                    "PNG parsing complete", "INFO")
                 /\ parsePc' = "scan"
            ELSE IF m < MaxPasses
            THEN /\ parseLog' = log(l, "PNG parsing complete", "INFO")
                 /\ parsePc' = "scan"
            ELSE /\ parseLog' = l
                 /\ parsePc' = "pngLoop"
  /\ UNCHANGED <<bytes, debugLog, page, calls, logOwner>>
  /\ UNCHANGED scorerVars

InitChunks ==
  /\ ScorerIdle
  /\ bytes \in ManyChunkPngs
  /\ debugLog \in BOOLEAN
  /\ parsePc = "idle"
  /\ offset = 0
  /\ chunkCount = 0
  /\ results = Null
  /\ parseLog = <<>>
  /\ calls = <<>>
  /\ logOwner = 0
  /\ page = Null

\* parseFile to the end of parsePNG.
SpecChunks ==
  InitChunks /\ [][ParseFile \/ ParsePNGSignature \/ ParsePNGPlainChunks]_vars

\* C23: the walk never counts more than 1000 chunks, and a walk that has
\* ended in a file of more chunks than it passed has left a warning in the log.
C23_ChunkCap ==
  /\ chunkCount <= ChunkLimit
  /\ (parsePc = "scan" /\ Len(bytes) > 8 + 12 * (chunkCount + 1)) =>
       \E i \in 1..Len(parseLog) : parseLog[i].level = "WARN"

\* ------------------------------------------------ the two signature databases

\* SimpleSignatureDb.containsAISignature of the simplified content script, which
\* hands its database to HeaderParser: the first entry of the catalog that the
\* text contains, whatever the length of the entry.
containsAISignatureSimplified(text) ==
  LET hits == { k \in 1..Len(Catalog) :
                  Includes(toLowerCase(text), toLowerCase(Catalog[k])) }
  IN  IF Len(text) = 0 \/ hits = {} THEN Null
      ELSE LET k == CHOOSE i \in hits : \A j \in hits : i <= j
           IN  [ tool |-> formatToolName(Catalog[k]), signature |-> Catalog[k],
                 type |-> "text-signature", confidence |-> "high" ]

\* The longest field text that is built from single characters.
MaxTextLen == 3

\* Field texts: short texts over a few characters, and three longer ones.
FieldTexts ==
  SeqsUpTo({97, 105, 65, 120}, MaxTextLen)
    \cup {Codes("made_with_ai"), Codes("Midjourney v5"), Codes("DALL-E 3")}

\* One call of containsAISignature on the database of either script.
ContainsAISignature ==
  /\ calls = <<>>
  /\ \E text \in FieldTexts, db \in {"module", "simplified"} :
       calls' = <<[ db |-> db, text |-> text,
                    returned |-> IF db = "module" THEN containsAISignature(text)
                                 ELSE containsAISignatureSimplified(text) ]>>
  /\ UNCHANGED <<bytes, debugLog, page, parsePc, offset, chunkCount, results, parseLog, logOwner>>
  /\ UNCHANGED scorerVars

SpecSignatureDb == InitFallback /\ [][ContainsAISignature]_vars

\* C24: no call returns a match on a catalog entry of fewer than 3 characters.
C24_ShortEntryNeverMatches ==
  \A i \in 1..Len(calls) :
    calls[i].returned # Null => Len(calls[i].returned.signature) >= 3

\* ------------------------------------------------ PNG files with a manifest

\* C2PA manifests in parts: what stands before the field, the name of the
\* field, the white space behind its colon, the value, and what follows.
Manifests ==
  [ open : {<<>>, Codes("{"), Codes("{") \o <<34>> \o Codes("m") \o <<34, 58>> \o Codes("{},")},
    key : {Codes("claim_generator"), Codes("Claim_Generator"), Codes("title")},
    gap : {<<>>, <<32, 10>>},
    generator : {<<>>, Codes("Midjourney v5"), Codes("Adobe Firefly"),
                 Codes("GIMP 2.10"), Codes("Paint.NET")},
    close : {<<>>, Codes("}"),
             <<44, 34>> \o Codes("assertions") \o <<34, 58>> \o Codes("[1]}")} ]

ManifestText(m) ==
  m.open \o <<34>> \o m.key \o <<34, 58>> \o m.gap \o <<34>> \o m.generator \o <<34>> \o m.close

ManifestPng(m) == PngSignature \o PngChunk("c2pa", ManifestText(m)) \o PngChunk("IEND", <<>>)

InitC2PA ==
  /\ ScorerIdle
  /\ bytes \in { ManifestPng(m) : m \in Manifests }
  /\ debugLog \in BOOLEAN
  /\ parsePc = "idle"
  /\ offset = 0
  /\ chunkCount = 0
  /\ results = Null
  /\ parseLog = <<>>
  /\ calls = <<>>
  /\ logOwner = 0
  /\ page = Null

SpecC2PA ==
  InitC2PA /\ [][ParseFile \/ ParsePNGSignature \/ ParsePNGChunk \/ ScanAndReturn]_vars

MaxMessages == 3

\* The listener of chrome.runtime.onMessage for analyzeMedia: a new
\* BotOrNotAnalyzer, whose constructor makes a new SimpleSignatureDb, whose
\* constructor starts init; analyzeMedia then waits for initPromise.
OnAnalyzeMedia ==
  /\ Len(calls) < MaxMessages
  /\ \E text \in {Codes("Midjourney v5"), Codes("a cat")} :
       calls' = Append(calls, [ pc |-> "init", loaded |-> FALSE, signatures |-> <<>>,
                                text |-> text, isAI |-> FALSE ])
  /\ UNCHANGED <<bytes, debugLog, page, parsePc, offset, chunkCount, results, parseLog, logOwner>>
  /\ UNCHANGED scorerVars

\* SimpleSignatureDb.init: the catalog of signatures.json when the fetch
\* answers ok, the empty list when it does not or throws.
SignatureDbInit ==
  /\ \E i \in 1..Len(calls), fetchedList \in {Catalog, <<>>} :
       /\ calls[i].pc = "init"
       /\ ~calls[i].loaded
       /\ calls' = [calls EXCEPT ![i] = [@ EXCEPT !.pc = "ready", !.loaded = TRUE,
                                                   !.signatures = fetchedList]]
  /\ UNCHANGED <<bytes, debugLog, page, parsePc, offset, chunkCount, results, parseLog, logOwner>>
  /\ UNCHANGED scorerVars

\* analyzeMedia behind 'await this.signatureDb.initPromise', for a file with
\* one text field: isAI when the parse pushed a match.
AnalyzeMediaAfterInit ==
  /\ \E i \in 1..Len(calls) :
       /\ calls[i].pc = "ready"
       /\ calls' = [calls EXCEPT ![i] =
            [@ EXCEPT !.pc = "done",
                      !.isAI = /\ calls[i].signatures # <<>>
                               /\ containsAISignatureSimplified(calls[i].text) # Null]]
  /\ UNCHANGED <<bytes, debugLog, page, parsePc, offset, chunkCount, results, parseLog, logOwner>>
  /\ UNCHANGED scorerVars

SpecCatalog ==
  InitFallback /\ [][OnAnalyzeMedia \/ SignatureDbInit \/ AnalyzeMediaAfterInit]_vars

\* C26: at most one load of the catalog has taken place on the page, and every
\* analysis that has matched had its catalog loaded before.
C26_CatalogLoadedOnce ==
  /\ Cardinality({i \in 1..Len(calls) : calls[i].loaded}) <= 1
  /\ \A i \in 1..Len(calls) : calls[i].pc = "done" => calls[i].loaded

\* ------------------------------------------------ the content script of a page

\* The most images of a page.
MaxImages == 2

Imgs == 1..MaxImages

Srcs == {"a.png", "b.png"}

\* The content script behind its constructor, on a page of images that all
\* pass the tests of processImage (shown, large enough, of a known origin):
\* nothing queued, nothing processed, no badge, no timer.  stage follows each
\* image through processImage and processAnalysisQueue; now, lastMutation,
\* burst, rescans and rescanAt are the clock and the record of what happened.
NewPage(src, present, stored) ==
  [ src |-> src, present |-> present, stored |-> stored,
    stage |-> [i \in Imgs |-> "new"], badges |-> <<>>,
    analysisQueue |-> <<>>, isProcessingQueue |-> FALSE, started |-> FALSE,
    now |-> 0, lastMutation |-> 0, burst |-> 0, timers |-> <<>>,
    rescans |-> 0, rescanAt |-> 0 ]

\* processAnalysisQueue with the flag left out of its test.
processAnalysisQueueUnguarded(p) ==
  IF p.analysisQueue = <<>> THEN p
  ELSE [p EXCEPT !.isProcessingQueue = TRUE,
                 !.analysisQueue = Tail(@),
                 !.stage[Head(p.analysisQueue)] = "analyzing"]

\* processAnalysisQueue up to its await: nothing when the queue is being
\* processed or is empty, else the flag is set and the first image is taken
\* from the queue and its analysis started.
processAnalysisQueue(p) ==
  IF p.isProcessingQueue \/ p.analysisQueue = <<>> THEN p
  ELSE [p EXCEPT !.isProcessingQueue = TRUE,
                 !.analysisQueue = Tail(@),
                 !.stage[Head(p.analysisQueue)] = "analyzing"]

\* scanImages: processImage on every image of the document, each up to its
\* await of getStoredAnalysis; an image already marked is passed over.
scanImages(p) ==
  [p EXCEPT !.stage = [i \in Imgs |->
     IF i \in p.present /\ p.stage[i] = "new" THEN "checking" ELSE p.stage[i]]]

pageUnchanged ==
  /\ UNCHANGED <<bytes, debugLog, parsePc, offset, chunkCount, results, parseLog, calls, logOwner>>
  /\ UNCHANGED scorerVars

\* startAutoScan: the first scan; the observer is set up.
StartAutoScan ==
  /\ ~page.started
  /\ page' = [scanImages(page) EXCEPT !.started = TRUE]
  /\ pageUnchanged

\* processImage behind its await: the badge of the stored analysis, or a
\* loading badge and analyzeAndStore, which pushes the image and calls
\* processAnalysisQueue.
ProcessImage ==
  /\ \E i \in Imgs :
       /\ page.stage[i] = "checking"
       /\ page' =
            IF page.src[i] \in page.stored
            THEN [page EXCEPT !.stage[i] = "shown",
                              !.badges = Append(@, [img |-> i, src |-> page.src[i],
                                                    loading |-> FALSE])]
            ELSE processAnalysisQueue(
                   [page EXCEPT !.stage[i] = "queued",
                                !.badges = Append(@, [img |-> i, src |-> page.src[i],
                                                      loading |-> TRUE]),
                                !.analysisQueue = Append(@, i)])
  /\ pageUnchanged

\* analyzeMedia returns or throws: storeAnalysis is called with the analysis
\* or with the error analysis.
AnalysisEnds ==
  /\ \E i \in Imgs :
       /\ page.stage[i] = "analyzing"
       /\ page' = [page EXCEPT !.stage[i] = "storing"]
  /\ pageUnchanged

\* storeAnalysis ends, having stored the analysis or having swallowed the
\* failure of the storage; updateBadgeFromStorage is called and not awaited;
\* finally the flag is cleared and processAnalysisQueue called.
StoreEnds ==
  /\ \E i \in Imgs, ok \in BOOLEAN :
       /\ page.stage[i] = "storing"
       /\ page' = processAnalysisQueue(
            [page EXCEPT !.stage[i] = "updating",
                         !.stored = IF ok THEN @ \cup {page.src[i]} ELSE @,
                         !.isProcessingQueue = FALSE])
  /\ pageUnchanged

\* updateBadgeFromStorage behind its await: with a stored analysis, the first
\* badge of the document with this src (querySelector) is updated.
UpdateBadgeFromStorage ==
  /\ \E i \in Imgs :
       /\ page.stage[i] = "updating"
       /\ LET mine == {k \in 1..Len(page.badges) : page.badges[k].src = page.src[i]}
              first == CHOOSE k \in mine : \A j \in mine : k <= j
          IN  page' = [page EXCEPT
                !.stage[i] = "done",
                !.badges = IF page.src[i] \in page.stored /\ mine # {}
                           THEN [@ EXCEPT ![first].loading = FALSE] ELSE @]
  /\ pageUnchanged

\* ------------------------------------------------ mutations and the debounce

\* this.config.debounceDelay, in milliseconds.
debounceDelay == 300

\* The step of the clock, in milliseconds.
TickMs == 100

\* The clock stops here, in steps.
MaxTicks == 5

\* The most mutation notifications of a page.
MaxMutations == 2

\* A timer of the page is due.
TimerDue == \E k \in 1..Len(page.timers) : page.timers[k] <= page.now

\* The clock advances, unless a timer is due: a due timer runs first.
Tick ==
  /\ page.started
  /\ ~TimerDue
  /\ page.now < MaxTicks * TickMs
  /\ page' = [page EXCEPT !.now = @ + TickMs]
  /\ pageUnchanged

\* The callback of the MutationObserver of startAutoScan, for a mutation that
\* adds at most one image: this.debounce(...) makes a new debounced function,
\* with a timeout variable of its own, and calls it once, which sets a timer.
\* A notification that comes debounceDelay or more after the last one begins
\* a new burst.
Mutation ==
  /\ page.started
  /\ ~TimerDue
  /\ page.burst < MaxMutations
  /\ \E added \in {{}} \cup {{i} : i \in Imgs \ page.present} :
       LET fresh == page.burst = 0 \/ page.now - page.lastMutation >= debounceDelay
       IN  page' = [page EXCEPT
             !.present = @ \cup added,
             !.timers = Append(@, page.now + debounceDelay),
             !.lastMutation = page.now,
             !.burst = IF fresh THEN 1 ELSE @ + 1,
             !.rescans = IF fresh THEN 0 ELSE @]
  /\ pageUnchanged

\* A timer set by a debounced function runs: later clears the timer of its
\* own function and calls scanImages and cleanupBadges (no image of these
\* pages is removed or hidden, so no badge is).
TimerFires ==
  /\ \E k \in 1..Len(page.timers) :
       /\ page.timers[k] <= page.now
       /\ page' = [scanImages(page) EXCEPT
            !.timers = SubSeq(page.timers, 1, k - 1)
                         \o SubSeq(page.timers, k + 1, Len(page.timers)),
            !.rescans = @ + 1,
            !.rescanAt = page.now]
  /\ pageUnchanged

InitPage ==
  /\ ScorerIdle
  /\ bytes = <<>>
  /\ debugLog = FALSE
  /\ parsePc = "idle"
  /\ offset = 0
  /\ chunkCount = 0
  /\ results = Null
  /\ parseLog = <<>>
  /\ calls = <<>>
  /\ logOwner = 0
  /\ page \in { NewPage(src, present, stored) :
                 src \in [Imgs -> Srcs], present \in SUBSET Imgs,
                 stored \in {{}, {"a.png"}} }

SpecPage ==
  InitPage
    /\ [][StartAutoScan \/ Mutation \/ Tick \/ TimerFires \/ ProcessImage \/ AnalysisEnds
            \/ StoreEnds \/ UpdateBadgeFromStorage]_vars

\* C29: a burst of notifications has at most one rescan, which does not run
\* before debounceDelay has passed since the last notification of the burst,
\* and has had its rescan when no timer is left.
C29_OneRescanPerBurst ==
  page.burst > 0 =>
    /\ page.rescans <= 1
    /\ page.rescans = 1 => page.rescanAt >= page.lastMutation + debounceDelay
    /\ page.timers = <<>> => page.rescans = 1

\* C27: at no time are two images between their removal from the queue and
\* the end of their analysis and its storing.
C27_OneAnalysisInFlight ==
  Cardinality({i \in Imgs : page.stage[i] \in {"analyzing", "storing"}}) <= 1

C27_Witness ==
  /\ \E i \in Imgs : page.stage[i] = "analyzing"
  /\ page.analysisQueue # <<>>
  /\ page.isProcessingQueue

\* C28: when no image is on its way through processImage, the queue, its
\* analysis, the storing or the update of its badge, no badge is loading.
C28_LoadingBadgeResolved ==
  (\A i \in Imgs : page.stage[i] \in {"new", "shown", "done"})
    => \A k \in 1..Len(page.badges) : ~page.badges[k].loading

\* ------------------------------------------------ isAI and the confidence

\* C30: a result of the unified scorer that says isAI carries the confidence
\* low, medium or high.
C30_IsAIHasConfidence ==
  (pc = "done" /\ analysis.isAI) => analysis.confidence \in {"low", "medium", "high"}

====
